---- MODULE Spec2Model ----
(***************************************************************************)
(* Document review and applicant verification state machines of the       *)
(* kms-connect backend (Django / DRF), modelled from                       *)
(* src/backend/account/{models,managers,serializers,views,                *)
(* applicant_self_service_views,document_specs,signals,tasks,ocr}.py,      *)
(* services/{scoring,notification_delivery}.py and the storage settings   *)
(* of src/backend/backend/settings.py.                                    *)
(*                                                                         *)
(* One request handler is one action.  A handler that answers with an     *)
(* error leaves the database untouched and only records the response.     *)
(* A Celery task, and a back-office request that races with one, is two   *)
(* actions: what it loads, then what it writes.  The queue holds each      *)
(* waiting task message once.                                              *)
(* Timestamps are abstracted to NULL / NOW (timezone.now() is never null), *)
(* strings to empty / non-empty, which is all the code tests.             *)
(***************************************************************************)
EXTENDS Integers, FiniteSets, Sequences, TLC

VARIABLES
    profile,    \* ApplicantProfile rows: verification fields, by applicant
    biodata,    \* per applicant: which of the submit-relevant fields are filled
    docs,       \* ApplicantDocument rows: per applicant, a row for each uploaded type
    response,   \* the last handler's answer: [op, code]
    storage,    \* the media storage: stored file name -> content, for names that exist
    queue,      \* Celery tasks waiting for a worker
    running,    \* task executions and requests in progress, with what each has loaded
    call,       \* a call of a pure function: its arguments and its result
    log,        \* what the workers have logged: tasks given up after their retries
    cache,      \* the Django cache: per applicant, the document keys that are set
    score,      \* the stored readiness score of each applicant, in tenths
    broadcast,  \* the Broadcast row: sent_at and total_recipients
    notifications   \* Notification rows: how many each recipient has

vars == <<profile, biodata, docs, response, storage, queue, running, call, log,
          cache, score, broadcast, notifications>>

\* What no document handler and no document task touches.
sideVars == <<score, broadcast, notifications>>

\* What the verification handlers never touch.
pipeVars == <<storage, queue, running, call, log, cache, sideVars>>

-----------------------------------------------------------------------------
(* Values *)

NULL == "NULL"          \* SQL NULL / Python None
NOW == "now"            \* a value of timezone.now()
ABSENT == "ABSENT"      \* a key the request body does not carry

MaxReviewers == 1       \* number of back-office users (role ADMIN)

Applicants == {"a1"}
DocTypes == {"ktp", "ijasah"}
UserIds == <<"admin1", "admin2", "admin3">>
Reviewers == {UserIds[i] : i \in 1..MaxReviewers}
NotesValues == {"", "n"}

DRAFT == "DRAFT"
SUBMITTED == "SUBMITTED"
ACCEPTED == "ACCEPTED"
REJECTED == "REJECTED"
ApplicantVerificationStatus == {DRAFT, SUBMITTED, ACCEPTED, REJECTED}

PENDING == "PENDING"
APPROVED == "APPROVED"
DocumentReviewStatus == {PENDING, APPROVED, REJECTED}

BiodataFields == {"full_name", "nik", "birth_date", "address"}

OK == "ok"                      \* 2xx
VALIDATION_ERROR == "400"       \* ValidationError surfaced to the caller
SERVER_ERROR == "500"           \* unhandled exception / IntegrityError

Resp(op, code) == [op |-> op, code |-> code]

NoCall == [fn |-> "none"]

\* The cache keys of an applicant's document figures, applicant_{id}_... .
RATE_KEY == "doc_approval_rate"
COMPLETE_KEY == "complete_docs"

EmptyCache == [a \in Applicants |-> <<>>]

\* ApplicantProfile.clear_document_cache, and the post_save / post_delete
\* receiver of ApplicantDocument, which deletes the same two keys.
clear_document_cache(c, a) == [c EXCEPT ![a] = <<>>]

\* cache.set(key, value, 300).
cache_set(c, a, key, value) ==
    [c EXCEPT ![a] = (key :> value) @@ [k \in DOMAIN c[a] \ {key} |-> c[a][k]]]

-----------------------------------------------------------------------------
(* ApplicantProfile: constraints and model methods *)

\* ProfileConstraintsOk without submitted_at_required_after_draft.
ProfileConstraintsOk_NoSubmittedAt(p) ==
    p.verification_status \notin {"ACCEPTED", "REJECTED"} \/ p.verified_at # "NULL"

\* Meta.constraints: submitted_at_required_after_draft,
\* verified_at_required_for_final_status (enforced by the database on every
\* INSERT/UPDATE and by full_clean()'s validate_constraints()).
ProfileConstraintsOk(p) ==
    /\ (p.verification_status = DRAFT \/ p.submitted_at # NULL)
    /\ (p.verification_status \notin {ACCEPTED, REJECTED} \/ p.verified_at # NULL)

\* clean() without the verified_by check.
ApplicantProfile_clean_NoVerifiedBy(p) == p.verification_status \in ApplicantVerificationStatus

\* ApplicantProfile.clean(): verified_by required for ACCEPTED / REJECTED.
\* (Referrer, passport and age checks concern fields outside this model.)
ApplicantProfile_clean(p) ==
    ~(p.verification_status \in {ACCEPTED, REJECTED} /\ p.verified_by = NULL)

\* Fields listed by submit_for_verification as required.
MissingRequired(b) == {f \in BiodataFields : ~b[f]}

\* submit_for_verification without the DRAFT guard.
ApplicantProfile_submit_for_verification_NoDraftGuard(p, b) ==
    IF MissingRequired(b) # {}
    THEN [ok |-> FALSE, p |-> p]
    ELSE [ok |-> TRUE,
          p |-> [p EXCEPT !.verification_status = SUBMITTED,
                          !.submitted_at = NOW]]

\* ApplicantProfile.submit_for_verification: [ok, p]
ApplicantProfile_submit_for_verification(p, b) ==
    IF p.verification_status # DRAFT
    THEN [ok |-> FALSE, p |-> p]
    ELSE IF MissingRequired(b) # {}
    THEN [ok |-> FALSE, p |-> p]
    ELSE [ok |-> TRUE,
          p |-> [p EXCEPT !.verification_status = SUBMITTED,
                          !.submitted_at = NOW]]

\* ApplicantProfile.approve(verified_by, notes): [ok, p]
ApplicantProfile_approve(p, verified_by, notes) ==
    IF p.verification_status # SUBMITTED
    THEN [ok |-> FALSE, p |-> p]
    ELSE [ok |-> TRUE,
          p |-> [p EXCEPT !.verification_status = ACCEPTED,
                          !.verified_by = verified_by,
                          !.verified_at = NOW,
                          !.verification_notes = notes,
                          !.submitted_at =
                              IF p.submitted_at = NULL THEN NOW ELSE p.submitted_at]]

\* reject() without the notes guard.
ApplicantProfile_reject_NoNotesGuard(p, verified_by, notes) ==
    IF p.verification_status # SUBMITTED
    THEN [ok |-> FALSE, p |-> p]
    ELSE [ok |-> TRUE,
          p |-> [p EXCEPT !.verification_status = REJECTED,
                          !.verified_by = verified_by,
                          !.verified_at = NOW,
                          !.verification_notes = notes,
                          !.submitted_at =
                              IF p.submitted_at = NULL THEN NOW ELSE p.submitted_at]]

\* ApplicantProfile.reject(verified_by, notes): [ok, p]
ApplicantProfile_reject(p, verified_by, notes) ==
    IF notes = ""
    THEN [ok |-> FALSE, p |-> p]
    ELSE IF p.verification_status # SUBMITTED
    THEN [ok |-> FALSE, p |-> p]
    ELSE [ok |-> TRUE,
          p |-> [p EXCEPT !.verification_status = REJECTED,
                          !.verified_by = verified_by,
                          !.verified_at = NOW,
                          !.verification_notes = notes,
                          !.submitted_at =
                              IF p.submitted_at = NULL THEN NOW ELSE p.submitted_at]]

-----------------------------------------------------------------------------
(* Registration creates the profile in DRAFT *)

NewProfile ==
    [verification_status |-> DRAFT,
     submitted_at |-> NULL,
     verified_at |-> NULL,
     verified_by |-> NULL,
     verification_notes |-> ""]

-----------------------------------------------------------------------------
(* Profile handlers *)

\* The model method called directly (the documented submit contract).
SubmitForVerification(a) ==
    LET r == ApplicantProfile_submit_for_verification(profile[a], biodata[a]) IN
    /\ profile' = [profile EXCEPT ![a] = r.p]
    /\ response' = Resp("submit", IF r.ok THEN OK ELSE VALIDATION_ERROR)
    /\ UNCHANGED <<biodata, docs, pipeVars>>

\* ApplicantProfileSelfServiceViewSet.submit_for_verification.  The guard is
\*   not profile.nik or not profile.full_name or not profile.address or ...
\* ApplicantProfile has no attribute full_name (it lives on CustomUser), so
\* once nik is non-empty the evaluation raises AttributeError: the lines that
\* would set SUBMITTED are never reached.
SelfServiceSubmit(a) ==
    /\ response' = Resp("self_submit",
                        IF ~biodata[a]["nik"] THEN VALIDATION_ERROR ELSE SERVER_ERROR)
    /\ UNCHANGED <<profile, biodata, docs, pipeVars>>

\* ApplicantProfile.approve called directly.
Approve(a, r, notes) ==
    LET res == ApplicantProfile_approve(profile[a], r, notes) IN
    /\ profile' = [profile EXCEPT ![a] = res.p]
    /\ response' = Resp("approve", IF res.ok THEN OK ELSE VALIDATION_ERROR)
    /\ UNCHANGED <<biodata, docs, pipeVars>>

\* ApplicantProfile.reject called directly.
Reject(a, r, notes) ==
    LET res == ApplicantProfile_reject(profile[a], r, notes) IN
    /\ profile' = [profile EXCEPT ![a] = res.p]
    /\ response' = Resp("reject", IF res.ok THEN OK ELSE VALIDATION_ERROR)
    /\ UNCHANGED <<biodata, docs, pipeVars>>

\* ApplicantProfileViewSet.approve: POST /applicant-profiles/{id}/approve/
ApproveView(a, r, notes) ==
    IF profile[a].verification_status # SUBMITTED
    THEN /\ response' = Resp("approve_view", VALIDATION_ERROR)
         /\ UNCHANGED <<profile, biodata, docs, pipeVars>>
    ELSE LET res == ApplicantProfile_approve(profile[a], r, notes) IN
         /\ profile' = [profile EXCEPT ![a] = res.p]
         /\ response' = Resp("approve_view", IF res.ok THEN OK ELSE VALIDATION_ERROR)
         /\ UNCHANGED <<biodata, docs, pipeVars>>

\* ApplicantProfileViewSet.reject: POST /applicant-profiles/{id}/reject/
RejectView(a, r, notes) ==
    IF notes = "" \/ profile[a].verification_status # SUBMITTED
    THEN /\ response' = Resp("reject_view", VALIDATION_ERROR)
         /\ UNCHANGED <<profile, biodata, docs, pipeVars>>
    ELSE LET res == ApplicantProfile_reject(profile[a], r, notes) IN
         /\ profile' = [profile EXCEPT ![a] = res.p]
         /\ response' = Resp("reject_view", IF res.ok THEN OK ELSE VALIDATION_ERROR)
         /\ UNCHANGED <<biodata, docs, pipeVars>>

\* ApplicantProfileManager.bulk_update_status: one UPDATE over
\* filter(id__in=profile_ids), no filter on the current status.  A row that
\* would break a CHECK constraint makes the statement fail as a whole
\* (IntegrityError): [ok, profiles].
bulk_update_status(profiles, profile_ids, status, verified_by, notes) ==
    LET upd == [a \in Applicants |->
                   IF a \in profile_ids
                   THEN [profiles[a] EXCEPT !.verification_status = status,
                                            !.verified_by = verified_by,
                                            !.verified_at = NOW,
                                            !.verification_notes = notes]
                   ELSE profiles[a]]
    IN IF \A a \in Applicants : ProfileConstraintsOk(upd[a])
       THEN [ok |-> TRUE, profiles |-> upd]
       ELSE [ok |-> FALSE, profiles |-> profiles]

\* ApplicantProfileViewSet.bulk_approve
BulkApprove(ids, r, notes) ==
    IF ids = {}
    THEN /\ response' = Resp("bulk_approve", VALIDATION_ERROR)
         /\ UNCHANGED <<profile, biodata, docs, pipeVars>>
    ELSE LET res == bulk_update_status(profile, ids, ACCEPTED, r, notes) IN
         /\ profile' = res.profiles
         /\ response' = Resp("bulk_approve", IF res.ok THEN OK ELSE SERVER_ERROR)
         /\ UNCHANGED <<biodata, docs, pipeVars>>

\* ApplicantProfileViewSet.bulk_reject
BulkReject(ids, r, notes) ==
    IF ids = {} \/ notes = ""
    THEN /\ response' = Resp("bulk_reject", VALIDATION_ERROR)
         /\ UNCHANGED <<profile, biodata, docs, pipeVars>>
    ELSE LET res == bulk_update_status(profile, ids, REJECTED, r, notes) IN
         /\ profile' = res.profiles
         /\ response' = Resp("bulk_reject", IF res.ok THEN OK ELSE SERVER_ERROR)
         /\ UNCHANGED <<biodata, docs, pipeVars>>

\* Request bodies of the admin applicant update that touch verification fields.
ProfileAttrs ==
    [verification_status : ApplicantVerificationStatus \cup {ABSENT},
     submitted_at : {ABSENT, NULL, NOW},
     verified_at : {ABSENT, NULL, NOW},
     verified_by : {ABSENT, NULL} \cup Reviewers,
     verification_notes : {ABSENT} \cup NotesValues]

\* docs_qs.exists() and docs_qs.exclude(review_status=APPROVED).exists(), negated
AllDocumentsApproved(ds) ==
    \A t \in DOMAIN ds : ds[t].review_status = APPROVED

\* ApplicantUserSerializer.validate, the applicant_profile part: [ok, attrs]
ApplicantUserSerializer_validate(attrs, ds, user) ==
    IF attrs.verification_status \in {ACCEPTED, REJECTED}
    THEN IF attrs.verification_status = ACCEPTED /\ ~AllDocumentsApproved(ds)
         THEN [ok |-> FALSE, attrs |-> attrs]
         ELSE [ok |-> TRUE,
               attrs |-> IF attrs.verified_by \in {ABSENT, NULL}
                         THEN [attrs EXCEPT !.verified_by = user]
                         ELSE attrs]
    ELSE [ok |-> TRUE, attrs |-> attrs]

\* for attr, value in profile_data.items(): setattr(profile, attr, value)
SetAttrs(p, attrs) ==
    [f \in DOMAIN p |-> IF attrs[f] = ABSENT THEN p[f] ELSE attrs[f]]

\* Model.full_clean(): clean_fields (nik has blank=False), clean(),
\* validate_constraints().
ApplicantProfile_full_clean(p, b) ==
    /\ b["nik"]
    /\ ApplicantProfile_clean(p)
    /\ ProfileConstraintsOk(p)

\* ApplicantUserSerializer.update, the profile part: [ok, p]
ApplicantUserSerializer_update(p, b, attrs) ==
    LET old_status == p.verification_status
        old_submitted_at == p.submitted_at
        old_verified_at == p.verified_at
        p1 == SetAttrs(p, attrs)
        new_status == p1.verification_status
        p2 == IF /\ new_status = SUBMITTED
                 /\ old_status # SUBMITTED
                 /\ old_submitted_at = NULL
                 /\ p1.submitted_at = NULL
              THEN [p1 EXCEPT !.submitted_at = NOW]
              ELSE p1
        p3 == IF /\ new_status \in {ACCEPTED, REJECTED}
                 /\ old_verified_at = NULL
                 /\ p2.verified_at = NULL
              THEN [p2 EXCEPT !.verified_at = NOW]
              ELSE p2
    IN IF ApplicantProfile_full_clean(p3, b)
       THEN [ok |-> TRUE, p |-> p3]
       ELSE [ok |-> FALSE, p |-> p]

\* ApplicantUserViewSet update / partial_update by back-office user r.
AdminProfileUpdate(a, r, attrs) ==
    LET v == ApplicantUserSerializer_validate(attrs, docs[a], r)
        u == ApplicantUserSerializer_update(profile[a], biodata[a], v.attrs)
    IN /\ profile' = [profile EXCEPT ![a] = IF v.ok THEN u.p ELSE profile[a]]
       /\ response' = Resp("admin_update",
                           IF v.ok /\ u.ok THEN OK ELSE VALIDATION_ERROR)
       /\ UNCHANGED <<biodata, docs, pipeVars>>

\* An edit of one submit-relevant biodata field (self-service PATCH of the
\* profile, whose verification fields are read-only, or the biodata part of the
\* admin applicant update).  nik cannot be blanked: its serializer field has
\* allow_blank=False.
EditBiodata(a, f, v) ==
    /\ f = "nik" => v
    /\ biodata[a][f] # v
    /\ biodata' = [biodata EXCEPT ![a][f] = v]
    /\ response' = Resp("edit_biodata", OK)
    /\ UNCHANGED <<profile, docs, pipeVars>>

-----------------------------------------------------------------------------
(* document_specs.py: the registry and the validator.  Strings the code takes *)
(* apart (file names, type codes) are sequences of one-character strings.     *)

MAX_PDF_BYTES == 2 * 1024 * 1024
MAX_IMAGE_BYTES == 500 * 1024

PDF_EXTENSIONS == {<<".", "p", "d", "f">>}
IMAGE_EXTENSIONS == {<<".", "j", "p", "g">>, <<".", "j", "p", "e", "g">>, <<".", "p", "n", "g">>}

KTP_CODE == <<"k", "t", "p">>
IJASAH_CODE == <<"i", "j", "a", "s", "a", "h">>
PASPOR_CODE == <<"p", "a", "s", "p", "o", "r">>

\* DOCUMENT_SPECS, three of its twelve rows (one PDF type, two image types;
\* the other rows repeat these two shapes).
DOCUMENT_SPECS ==
    (IJASAH_CODE :> [format |-> "pdf", extensions |-> PDF_EXTENSIONS,
                     max_bytes |-> MAX_PDF_BYTES])
    @@ (KTP_CODE :> [format |-> "image", extensions |-> IMAGE_EXTENSIONS,
                     max_bytes |-> MAX_IMAGE_BYTES])
    @@ (PASPOR_CODE :> [format |-> "image", extensions |-> IMAGE_EXTENSIONS,
                        max_bytes |-> MAX_IMAGE_BYTES])

UpperToLower ==
    [A |-> "a", D |-> "d", E |-> "e", F |-> "f", G |-> "g", I |-> "i", J |-> "j",
     K |-> "k", N |-> "n", P |-> "p", T |-> "t"]

\* str.lower()
lower(s) ==
    [i \in DOMAIN s |-> IF s[i] \in DOMAIN UpperToLower THEN UpperToLower[s[i]] ELSE s[i]]

Whitespace == {" ", "\n"}

RECURSIVE lstrip(_)
lstrip(s) == IF s # <<>> /\ Head(s) \in Whitespace THEN lstrip(Tail(s)) ELSE s

RECURSIVE rstrip(_)
rstrip(s) ==
    IF s # <<>> /\ s[Len(s)] \in Whitespace
    THEN rstrip(SubSeq(s, 1, Len(s) - 1)) ELSE s

\* str.strip()
strip(s) == rstrip(lstrip(s))

\* The None that get_spec_for_code returns for a code without a spec.
NoSpec == [format |-> "none", extensions |-> {}, max_bytes |-> 0]

\* get_spec_for_code: the spec, or NoSpec
get_spec_for_code(code) ==
    IF code = <<>>
    THEN NoSpec
    ELSE LET key == lower(strip(code)) IN
         IF key \in DOMAIN DOCUMENT_SPECS THEN DOCUMENT_SPECS[key] ELSE NoSpec

\* name.rsplit(".", 1)[-1]: what follows the last dot (the whole name if none)
RECURSIVE rsplit_last(_)
rsplit_last(name) ==
    IF name = <<>> THEN <<>>
    ELSE IF name[Len(name)] = "." THEN <<>>
    ELSE rsplit_last(SubSeq(name, 1, Len(name) - 1)) \o <<name[Len(name)]>>

HasDot(name) == \E i \in DOMAIN name : name[i] = "."

\* The extension with the case of the name kept.
FileExt_CaseSensitive(name) ==
    <<".">> \o (IF HasDot(name) THEN rsplit_last(name) ELSE <<>>)

\* ext = "." + (file.name.rsplit(".", 1)[-1].lower() if "." in file.name else "")
FileExt(name) ==
    <<".">> \o (IF HasDot(name) THEN lower(rsplit_last(name)) ELSE <<>>)

VALID == "valid"
INVALID_FORMAT == "invalid_format"
FILE_TOO_LARGE == "file_too_large"

\* validate_document_file(file, doc_type_code): VALID, or the code of the
\* ValidationError it raises.
validate_document_file(file, doc_type_code) ==
    LET spec == get_spec_for_code(doc_type_code) IN
    IF spec = NoSpec THEN VALID
    ELSE IF FileExt(file.name) \notin spec.extensions THEN INVALID_FORMAT
    ELSE IF file.size > spec.max_bytes THEN FILE_TOO_LARGE
    ELSE VALID

\* is_image_type
is_image_type(doc_type_code) ==
    LET spec == get_spec_for_code(doc_type_code) IN
    spec # NoSpec /\ spec.format = "image"

-----------------------------------------------------------------------------
(* The media storage and the names of stored files *)

MaxSuffix == 1      \* alternative names the storage can give to one path

\* No file stored; FileSystemStorage (settings.py with DEBUG or without
\* DO_SPACES_*).  S3Boto3Storage, configured otherwise, overwrites.
EmptyStorage(file_overwrite) == [file_overwrite |-> file_overwrite, files |-> <<>>]

CodeOf(t) == IF t = "ktp" THEN KTP_CODE ELSE IJASAH_CODE

\* os.path.splitext(filename)[1]: from the last dot, case kept
splitext(filename) ==
    IF HasDot(filename) /\ filename[1] # "." THEN <<".">> \o rsplit_last(filename) ELSE <<>>

\* applicant_document_upload_to: the path depends on the applicant, the type
\* and the extension of the uploaded name only.  n is the suffix the storage
\* adds to make the name free (0: none).
applicant_document_upload_to(a, t, filename) ==
    [applicant |-> a, type |-> t, ext |-> splitext(filename), n |-> 0]

Exists(st, name) == name \in DOMAIN st.files

FreeSuffixes(st, name) == {k \in 1..MaxSuffix : ~Exists(st, [name EXCEPT !.n = k])}

\* Storage.get_available_name: the name itself when it is free or the storage
\* overwrites, else the name with a suffix that is free.
get_available_name(st, name) ==
    IF st.file_overwrite \/ ~Exists(st, name)
    THEN name
    ELSE [name EXCEPT !.n = CHOOSE k \in FreeSuffixes(st, name) :
                                 \A j \in FreeSuffixes(st, name) : k <= j]

\* The storage can take a file under this path.
CanSave(st, name) ==
    st.file_overwrite \/ ~Exists(st, name) \/ FreeSuffixes(st, name) # {}

\* Storage.save(name, content)
StorageSave(st, name, content) ==
    [st EXCEPT !.files = (get_available_name(st, name) :> content) @@ st.files]

\* Storage.delete(name): no error when the file is missing
StorageDelete(st, name) ==
    [st EXCEPT !.files = [n \in DOMAIN st.files \ {name} |-> st.files[n]]]

\* The content of an uploaded file.
Content(file) == [bytes |-> file.bytes, size |-> file.size]

Job(kind, a, t, retries) == [kind |-> kind, a |-> a, t |-> t, retries |-> retries]

\* signals.py, post_save of ApplicantDocument: the tasks queued for row d of
\* type t whose file name before the save was prev (NULL for a created row).
\* size_known: instance.file.size can be read.
PostSaveJobs(st, a, t, d, created, prev) ==
    LET replaced == created \/ prev # d.file
        size_over == Exists(st, d.file) /\ st.files[d.file].size > MAX_IMAGE_BYTES
    IN (IF replaced THEN {Job("ocr", a, t, 0)} ELSE {})
       \cup (IF is_image_type(CodeOf(t)) /\ replaced /\ size_over
             THEN {Job("optimize", a, t, 0)} ELSE {})

-----------------------------------------------------------------------------
(* ApplicantDocument: serializer and handlers *)

\* Writable review fields of ApplicantDocumentSerializer (reviewed_at is
\* read-only, review_status / reviewed_by / review_notes are not).
DocAttrs ==
    [review_status : DocumentReviewStatus \cup {ABSENT},
     reviewed_by : {ABSENT, NULL} \cup Reviewers,
     review_notes : {ABSENT} \cup NotesValues]

HasDocument(a, t) == t \in DOMAIN docs[a]

\* Model defaults of a new ApplicantDocument row.
NewDocument ==
    [review_status |-> PENDING,
     reviewed_by |-> NULL,
     reviewed_at |-> NULL,
     review_notes |-> "",
     file |-> NULL,
     ocr_text |-> <<>>,
     ocr_data |-> <<>>,
     ocr_processed_at |-> NULL]

\* attrs applied to a document row; reviewed_at is never in attrs.
SetDocAttrs(d, attrs) ==
    [f \in DOMAIN d |->
        IF f \in DOMAIN attrs /\ attrs[f] # ABSENT THEN attrs[f] ELSE d[f]]

\* ApplicantDocumentSerializer.validate.  stored_notes is
\* self.instance.review_notes, or "" when there is no instance (create).
ApplicantDocumentSerializer_validate(attrs, stored_notes) ==
    IF attrs.review_status = REJECTED
    THEN LET review_notes ==
                 IF attrs.review_notes = ABSENT THEN "" ELSE attrs.review_notes
         IN ~(review_notes = "" /\ stored_notes = "")
    ELSE TRUE

\* ApplicantDocumentSerializer.update: the row that instance.save() writes.
ApplicantDocumentSerializer_update(instance, attrs, user) ==
    LET old_status == instance.review_status
        old_reviewed_at == instance.reviewed_at
        d1 == SetDocAttrs(instance, attrs)
        new_status == d1.review_status
        d2 == IF /\ new_status \in {APPROVED, REJECTED}
                 /\ old_status # new_status
                 /\ old_reviewed_at = NULL
              THEN [d1 EXCEPT !.reviewed_at = NOW,
                              !.reviewed_by =
                                  IF d1.reviewed_by = NULL THEN user ELSE d1.reviewed_by]
              ELSE d1
    IN IF new_status = PENDING /\ old_status # PENDING
       THEN [d2 EXCEPT !.reviewed_at = NULL,
                       !.reviewed_by = NULL,
                       !.review_notes = ""]
       ELSE d2

\* ModelSerializer.create with the validated attrs: Model.save() stores the
\* file (FileField.pre_save) and then inserts the row; a second row for the
\* same (applicant_profile, document_type) breaks the unique constraint, after
\* the file was stored.  post_save queues the tasks; extra are the tasks the
\* view queues itself.
CreateDocument(op, a, t, attrs, file, extra) ==
    IF ~ApplicantDocumentSerializer_validate(attrs, "")
    THEN /\ response' = Resp(op, VALIDATION_ERROR)
         /\ UNCHANGED <<profile, biodata, docs, pipeVars>>
    ELSE LET path == applicant_document_upload_to(a, t, file.name)
             name == get_available_name(storage, path)
             st == StorageSave(storage, path, Content(file))
             d == [SetDocAttrs(NewDocument, attrs) EXCEPT !.file = name]
         IN /\ CanSave(storage, path)
            /\ storage' = st
            /\ IF HasDocument(a, t)
               THEN /\ response' = Resp(op, SERVER_ERROR)
                    /\ UNCHANGED <<profile, biodata, docs, queue, running, call, log,
                                   cache, sideVars>>
               ELSE /\ docs' = [docs EXCEPT ![a] = (t :> d) @@ docs[a]]
                    /\ queue' = queue \cup PostSaveJobs(st, a, t, d, TRUE, NULL) \cup extra
                    /\ cache' = clear_document_cache(cache, a)
                    /\ response' = Resp(op, OK)
                    /\ UNCHANGED <<profile, biodata, running, call, log, sideVars>>

\* ApplicantDocumentSelfServiceViewSet.create / perform_create: the applicant's
\* upload.  The view validates the file and, after the save, queues OCR for a
\* ktp and optimization for an image type itself.
SelfServiceUpload(a, t, attrs, file) ==
    IF /\ ApplicantDocumentSerializer_validate(attrs, "")
       /\ validate_document_file(file, CodeOf(t)) # VALID
    THEN /\ response' = Resp("self_upload", VALIDATION_ERROR)
         /\ UNCHANGED <<profile, biodata, docs, pipeVars>>
    ELSE CreateDocument("self_upload", a, t, attrs, file,
                        (IF CodeOf(t) = KTP_CODE THEN {Job("ocr", a, t, 0)} ELSE {})
                        \cup (IF is_image_type(CodeOf(t))
                              THEN {Job("optimize", a, t, 0)} ELSE {}))

\* ApplicantDocumentViewSet.create / perform_create: upload by the back office;
\* the file is not validated.
AdminUpload(a, t, attrs, file) ==
    CreateDocument("admin_upload", a, t, attrs, file, {})

\* ApplicantDocumentViewSet.update / partial_update by back-office user r:
\* the reviewer action.
ReviewDocument(a, t, r, attrs) ==
    /\ HasDocument(a, t)
    /\ IF ~ApplicantDocumentSerializer_validate(attrs, docs[a][t].review_notes)
       THEN /\ response' = Resp("review", VALIDATION_ERROR)
            /\ UNCHANGED <<profile, biodata, docs, pipeVars>>
       ELSE /\ docs' = [docs EXCEPT ![a][t] =
                           ApplicantDocumentSerializer_update(docs[a][t], attrs, r)]
            /\ cache' = clear_document_cache(cache, a)
            /\ response' = Resp("review", OK)
            /\ UNCHANGED <<profile, biodata, storage, queue, running, call, log, sideVars>>

\* destroy of either document viewset (DELETE by the applicant or by the back
\* office): instance.delete() removes the row.
DeleteDocument(a, t) ==
    /\ HasDocument(a, t)
    /\ storage' = StorageDelete(storage, docs[a][t].file)
    /\ docs' = [docs EXCEPT ![a] = [u \in DOMAIN docs[a] \ {t} |-> docs[a][u]]]
    /\ cache' = clear_document_cache(cache, a)
    /\ response' = Resp("delete_document", OK)
    /\ UNCHANGED <<profile, biodata, queue, running, call, log, sideVars>>

JPG_NAME == <<"a", ".", "j", "p", "g">>
PNG_NAME == <<"a", ".", "p", "n", "g">>
PDF_NAME == <<"a", ".", "p", "d", "f">>

SmallSize == 100 * 1024
BigSize == 600 * 1024

\* A file that is valid for the type: a small JPEG for ktp, a small PDF for
\* ijasah.
ValidFile(t) ==
    [name |-> IF t = "ktp" THEN JPG_NAME ELSE PDF_NAME, size |-> SmallSize, bytes |-> "b1"]

\* Request bodies that carry a review status and, for REJECTED, notes.
StatusOnlyAttrs ==
    {x \in DocAttrs : /\ x.reviewed_by = ABSENT
                      /\ x.review_status # ABSENT
                      /\ x.review_notes = IF x.review_status = REJECTED
                                          THEN "n" ELSE ABSENT}

NoAttrs == [review_status |-> ABSENT, reviewed_by |-> ABSENT, review_notes |-> ABSENT]

-----------------------------------------------------------------------------
(* ocr.py and the text-detection provider *)

KTP_OCR_KEYS == {"nik", "name", "birth_place", "birth_date", "address", "gender"}

\* Texts are sequences of tokens: words, " " and "\n".
NIK16 == {"3201010101010001", "3201010101010002"}

TextB1 == <<"NIK", " ", "3201010101010001", "\n", "Nama", ":", " ", "BUDI", "\n">>
TextB2 == <<"NIK", " ", "3201010101010002", "\n", "Nama", ":", " ", "SITI">>
TextB3 == <<"Nama", ":", " ", "BUDI", "\n", "Alamat", ":", " ", "MAWAR", "\n">>

\* What document_text_detection returns for the bytes it is given (the
\* provider is opaque; a recompressed image may yield no text at all).
Vision == [b1 |-> TextB1, b2 |-> TextB2, b3 |-> TextB3, o3 |-> <<"\n">>]

\* text.splitlines()
RECURSIVE splitlines(_)
splitlines(text) ==
    IF text = <<>> THEN <<>>
    ELSE LET brk == {i \in DOMAIN text : text[i] = "\n"} IN
         IF brk = {} THEN <<text>>
         ELSE LET i == CHOOSE k \in brk : \A j \in brk : k <= j IN
              <<SubSeq(text, 1, i - 1)>> \o splitlines(SubSeq(text, i + 1, Len(text)))

\* lines = [ln.strip() for ln in text.splitlines() if ln.strip()]
RECURSIVE strip_lines(_)
strip_lines(lines) ==
    IF lines = <<>> THEN <<>>
    ELSE (IF strip(Head(lines)) = <<>> THEN <<>> ELSE <<strip(Head(lines))>>)
         \o strip_lines(Tail(lines))

\* re.search(r"\b(\d{16})\b", full_text): the first 16-digit token
first_nik(lines) ==
    LET hits == {<<i, j>> \in (DOMAIN lines) \X (1..9) :
                    j \in DOMAIN lines[i] /\ lines[i][j] \in NIK16}
    IN IF hits = {} THEN <<>>
       ELSE LET h == CHOOSE x \in hits :
                        \A y \in hits : x[1] < y[1] \/ (x[1] = y[1] /\ x[2] <= y[2])
            IN <<lines[h[1]][h[2]]>>

\* re.sub(r"^label\s*[:.]?\s*", "", line).strip(): the line after its label
after_label(line) ==
    LET rest1 == lstrip(Tail(line))
        rest2 == IF rest1 # <<>> /\ Head(rest1) \in {":", "."} THEN Tail(rest1) ELSE rest1
    IN strip(rest2)

\* The spellings of a label word that re.I matches.
NAMA_LABEL == {"nama", "Nama", "NAMA"}
ALAMAT_LABEL == {"alamat", "Alamat", "ALAMAT"}

IsLabel(line, label) == line # <<>> /\ Head(line) \in label

\* The first line that starts with the label: its index, or 0.
first_labelled(lines, label) ==
    LET hits == {i \in DOMAIN lines : IsLabel(lines[i], label)} IN
    IF hits = {} THEN 0 ELSE CHOOSE i \in hits : \A j \in hits : i <= j

\* Tokens made of digits only, and the number of characters of a token.
DigitTokens == NIK16 \cup {"12"}

TokenLen(tok) ==
    CASE tok \in NIK16 -> 16
      [] tok \in {"PROVINSI"} -> 8
      [] tok \in ALAMAT_LABEL -> 6
      [] tok \in {"MAWAR"} -> 5
      [] tok \in NAMA_LABEL \cup {"BUDI", "SITI"} -> 4
      [] tok \in {"NIK"} -> 3
      [] tok \in {"12", "AB"} -> 2
      [] OTHER -> 1

\* len(s)
RECURSIVE len(_)
len(s) == IF s = <<>> THEN 0 ELSE TokenLen(Head(s)) + len(Tail(s))

\* s.isdigit()
isdigit(s) == s # <<>> /\ \A i \in DOMAIN s : s[i] \in DigitTokens

\* re.match(r"^nama\s*$", line, re.I)
IsLabelAlone(line, label) == Len(line) = 1 /\ Head(line) \in label

\* The name loop of parse_ktp_text from line i on, in the order of its
\* statements: a line that starts with the label ends the loop, with its
\* value when that is not empty and not a number; only a line the first
\* test lets pass reaches the test for a label alone.
RECURSIVE name_loop(_, _)
name_loop(lines, i) ==
    IF i > Len(lines) THEN <<>>
    ELSE IF IsLabel(lines[i], NAMA_LABEL)
    THEN LET value == after_label(lines[i]) IN
         IF value # <<>> /\ ~isdigit(value) THEN value ELSE <<>>
    ELSE IF /\ IsLabelAlone(lines[i], NAMA_LABEL)
            /\ i + 1 <= Len(lines)
            /\ ~isdigit(lines[i + 1])
            /\ len(lines[i + 1]) > 2
    THEN lines[i + 1]
    ELSE name_loop(lines, i + 1)

\* The fall-back: the first of lines[:5] longer than 4 characters that is no
\* number and does not start with a digit.
fallback_name(lines) ==
    LET hits == {i \in DOMAIN lines : /\ i <= 5
                                      /\ len(lines[i]) > 4
                                      /\ ~isdigit(lines[i])
                                      /\ Head(lines[i]) \notin DigitTokens}
    IN IF hits = {} THEN <<>>
       ELSE lines[CHOOSE i \in hits : \A j \in hits : i <= j]

\* parse_ktp_text: the NIK search, the name loop with its fall-back and the
\* label loop for the address.  (The texts used here have no birth or gender
\* line, so those scans leave their keys empty.)
parse_ktp_text(text) ==
    IF strip(text) = <<>>
    THEN [k \in KTP_OCR_KEYS |-> <<>>]
    ELSE LET lines == strip_lines(splitlines(text))
             name == name_loop(lines, 1)
             ad == first_labelled(lines, ALAMAT_LABEL)
         IN [k \in KTP_OCR_KEYS |->
                CASE k = "nik" -> first_nik(lines)
                  [] k = "name" -> IF name # <<>> THEN name ELSE fallback_name(lines)
                  [] k = "address" -> IF ad = 0 THEN <<>> ELSE after_label(lines[ad])
                  [] OTHER -> <<>>]

-----------------------------------------------------------------------------
(* tasks.py: the Celery tasks, each run in two steps (load, then write) *)

MAX_RETRIES_OCR == 3
MAX_RETRIES_OPTIMIZE == 2

MaxRunning == 2     \* task executions and requests in progress at once

MaxRetries(kind) == IF kind = "ocr" THEN MAX_RETRIES_OCR ELSE MAX_RETRIES_OPTIMIZE

\* A worker that queues a failed task again whatever its retry count.
RetryJobs_NoLimit(j) == {Job(j.kind, j.a, j.t, j.retries + 1)}

\* autoretry_for=(Exception,), max_retries: after an exception the task is
\* queued again while request.retries < max_retries, else it is given up and
\* the failure logged.
RetryJobs(j) ==
    IF j.retries < MaxRetries(j.kind)
    THEN {Job(j.kind, j.a, j.t, j.retries + 1)} ELSE {}

GivenUp(j) ==
    IF j.retries < MaxRetries(j.kind) THEN {} ELSE {[kind |-> j.kind, a |-> j.a, t |-> j.t]}

\* An attempt of task j ends with an exception: nothing is written.
JobFails(j) ==
    /\ queue' = (queue \ {j}) \cup RetryJobs(j)
    /\ log' = log \cup GivenUp(j)

\* An attempt of task j returns without doing anything.
JobReturns(j) ==
    /\ queue' = queue \ {j}
    /\ UNCHANGED log

Execution(j, d, content) ==
    [kind |-> j.kind, a |-> j.a, t |-> j.t, retries |-> j.retries,
     doc |-> d, content |-> content]

JobOf(e) == Job(e.kind, e.a, e.t, e.retries)

\* ApplicantDocument.save, lines 1430-1440: on every save of an instance
\* whose row exists, the row's current file is deleted when its name differs
\* from the instance's file name.
ReleaseOldFile(st, a, t, file) ==
    IF HasDocument(a, t) /\ docs[a][t].file # file
    THEN StorageDelete(st, docs[a][t].file) ELSE st

\* Model.save() proper for instance inst, st being the storage by then: the
\* row is updated with the fields named (inserted whole when it is gone) and
\* post_save queues the tasks, comparing the instance's file name with the
\* name the row had.
WriteRow(st, a, t, inst, fields) ==
    /\ storage' = st
    /\ cache' = clear_document_cache(cache, a)
    /\ IF HasDocument(a, t)
       THEN /\ docs' = [docs EXCEPT ![a][t] =
                           [f \in DOMAIN inst |->
                               IF f \in fields THEN inst[f] ELSE docs[a][t][f]]]
            /\ queue' = queue \cup PostSaveJobs(st, a, t, inst, FALSE, docs[a][t].file)
       ELSE /\ docs' = [docs EXCEPT ![a] = (t :> inst) @@ docs[a]]
            /\ queue' = queue \cup PostSaveJobs(st, a, t, inst, TRUE, NULL)

\* instance.save() with no update_fields.
SaveWholeRow(st, a, t, inst) ==
    WriteRow(ReleaseOldFile(st, a, t, inst.file), a, t, inst, DOMAIN inst)

OCR_UPDATE_FIELDS == {"ocr_text", "ocr_data", "ocr_processed_at"}

\* process_document_ocr, lines 21-35: load the row and read the file.
OcrStart(a, t, n) ==
    LET j == Job("ocr", a, t, n) IN
    /\ j \in queue
    /\ Cardinality(running) < MaxRunning
    /\ IF ~HasDocument(a, t)
       THEN JobReturns(j) /\ UNCHANGED running
       ELSE IF ~Exists(storage, docs[a][t].file)
       THEN JobFails(j) /\ UNCHANGED running
       ELSE /\ running' = running \cup
                  {Execution(j, docs[a][t], storage.files[docs[a][t].file])}
            /\ JobReturns(j)
    /\ UNCHANGED <<profile, biodata, docs, response, storage, call, cache, sideVars>>

\* The three fields process_document_ocr assigns on the row it loaded.
OcrFields(d, t, text) ==
    LET full_text == strip(text) IN
    [d EXCEPT !.ocr_text = full_text,
              !.ocr_processed_at = NOW,
              !.ocr_data = IF CodeOf(t) = KTP_CODE /\ full_text # <<>>
                           THEN parse_ktp_text(full_text)
                           ELSE d.ocr_data]

\* process_document_ocr, lines 37-53: the provider call and
\* doc.save(update_fields=[ocr_text, ocr_data, ocr_processed_at]), which
\* raises when the row is gone.  provider_ok: the provider answers without an
\* error.
OcrFinish(e, provider_ok) ==
    /\ e \in running
    /\ e.kind = "ocr"
    /\ running' = running \ {e}
    /\ IF ~provider_ok \/ ~HasDocument(e.a, e.t)
       THEN /\ queue' = queue \cup RetryJobs(JobOf(e))
            /\ log' = log \cup GivenUp(JobOf(e))
            /\ UNCHANGED <<docs, storage, cache>>
       ELSE LET inst == OcrFields(e.doc, e.t, Vision[e.content.bytes]) IN
            /\ WriteRow(ReleaseOldFile(storage, e.a, e.t, inst.file),
                        e.a, e.t, inst, OCR_UPDATE_FIELDS)
            /\ UNCHANGED log
    /\ UNCHANGED <<profile, biodata, response, call, sideVars>>

\* Image.open(f).convert("RGB") succeeds on these bytes.
Decodable(bytes) == bytes \in {"b1", "b2", "b3", "o3"}

\* The JPEG the compression loop ends with.
OptimizedContent(content) ==
    [bytes |-> IF content.bytes = "b3" THEN "o3" ELSE content.bytes, size |-> SmallSize]

\* optimize_document_image, lines 68-89: load the row, return unless the type
\* is an image type, the file is over the limit and it can be decoded.
OptimizeStart(a, t, n) ==
    LET j == Job("optimize", a, t, n) IN
    /\ j \in queue
    /\ Cardinality(running) < MaxRunning
    /\ JobReturns(j)
    /\ IF /\ HasDocument(a, t)
          /\ is_image_type(CodeOf(t))
          /\ Exists(storage, docs[a][t].file)
          /\ storage.files[docs[a][t].file].size > MAX_IMAGE_BYTES
          /\ Decodable(storage.files[docs[a][t].file].bytes)
       THEN running' = running \cup
                {Execution(j, docs[a][t], storage.files[docs[a][t].file])}
       ELSE UNCHANGED running
    /\ UNCHANGED <<profile, biodata, docs, response, storage, call, cache, sideVars>>

JPEG_EXTENSIONS == {<<".", "j", "p", "g">>, <<".", "j", "p", "e", "g">>}

\* The path doc.file.save(name, ...) asks the storage for: upload_to with the
\* name whose extension is forced to .jpg unless it is .jpg / .jpeg already.
OptimizedPath(name) ==
    [name EXCEPT !.ext = IF lower(name.ext) \in JPEG_EXTENSIONS
                         THEN name.ext ELSE <<".", "j", "p", "g">>,
                 !.n = 0]

\* optimize_document_image, lines 91-116: compress and
\* doc.file.save(name, content, save=True).  ok: no exception on the way.
OptimizeFinish(e, ok) ==
    /\ e \in running
    /\ e.kind = "optimize"
    /\ running' = running \ {e}
    /\ IF ~ok
       THEN /\ queue' = queue \cup RetryJobs(JobOf(e))
            /\ log' = log \cup GivenUp(JobOf(e))
            /\ UNCHANGED <<docs, storage, cache>>
       ELSE LET path == OptimizedPath(e.doc.file)
                inst == [e.doc EXCEPT !.file = get_available_name(storage, path)]
            IN /\ CanSave(storage, path)
               /\ SaveWholeRow(StorageSave(storage, path, OptimizedContent(e.content)),
                               e.a, e.t, inst)
               /\ UNCHANGED log
    /\ UNCHANGED <<profile, biodata, response, call, sideVars>>

\* The JPEG the compression loop ends with when the shrink loop is left at the
\* floor of max_side with the buffer over the target: it is saved all the
\* same.
OverBudgetContent(content) ==
    [bytes |-> IF content.bytes = "b3" THEN "o3" ELSE content.bytes, size |-> BigSize]

\* optimize_document_image, lines 91-116, with that outcome of the loop.
OptimizeFinishOver(e) ==
    /\ e \in running
    /\ e.kind = "optimize"
    /\ running' = running \ {e}
    /\ LET path == OptimizedPath(e.doc.file)
           inst == [e.doc EXCEPT !.file = get_available_name(storage, path)]
       IN /\ CanSave(storage, path)
          /\ SaveWholeRow(StorageSave(storage, path, OverBudgetContent(e.content)),
                          e.a, e.t, inst)
    /\ UNCHANGED <<profile, biodata, response, call, log, sideVars>>

-----------------------------------------------------------------------------
(* Requests of the back office on an existing document, in two steps: *)
(* get_object(), then serializer.save()                                *)

Request(kind, a, t, r, attrs, file, d) ==
    [kind |-> kind, a |-> a, t |-> t, user |-> r, attrs |-> attrs, file |-> file, doc |-> d]

\* ApplicantDocumentViewSet.partial_update with review fields: the row is
\* loaded and the body validated against it.
ReviewLoad(a, t, r, attrs) ==
    /\ HasDocument(a, t)
    /\ Cardinality(running) < MaxRunning
    /\ IF ~ApplicantDocumentSerializer_validate(attrs, docs[a][t].review_notes)
       THEN /\ response' = Resp("review", VALIDATION_ERROR)
            /\ UNCHANGED running
       ELSE /\ running' = running \cup {Request("review", a, t, r, attrs, NULL, docs[a][t])}
            /\ UNCHANGED response
    /\ UNCHANGED <<profile, biodata, docs, storage, queue, call, log, cache, sideVars>>

\* ... ApplicantDocumentSerializer.update on the loaded instance and
\* instance.save().
ReviewSave(e) ==
    /\ e \in running
    /\ e.kind = "review"
    /\ running' = running \ {e}
    /\ SaveWholeRow(storage, e.a, e.t, ApplicantDocumentSerializer_update(e.doc, e.attrs, e.user))
    /\ response' = Resp("review", OK)
    /\ UNCHANGED <<profile, biodata, call, log, sideVars>>

\* ApplicantDocumentViewSet.partial_update with a file: the row is loaded;
\* the file is not validated.
ReplaceLoad(a, t, r, file) ==
    /\ HasDocument(a, t)
    /\ Cardinality(running) < MaxRunning
    /\ running' = running \cup {Request("replace", a, t, r, NoAttrs, file, docs[a][t])}
    /\ UNCHANGED <<profile, biodata, docs, response, storage, queue, call, log,
                   cache, sideVars>>

\* ... setattr(instance, "file", file) and instance.save():
\* ApplicantDocument.save deletes the current row's file (its name differs
\* from the name of the upload, which is not stored yet), FileField.pre_save
\* stores the upload, the row is written whole, post_save compares the names.
ReplaceSave(e) ==
    /\ e \in running
    /\ e.kind = "replace"
    /\ running' = running \ {e}
    /\ LET st1 == IF HasDocument(e.a, e.t)
                  THEN StorageDelete(storage, docs[e.a][e.t].file) ELSE storage
           path == applicant_document_upload_to(e.a, e.t, e.file.name)
           inst == [e.doc EXCEPT !.file = get_available_name(st1, path)]
       IN /\ CanSave(st1, path)
          /\ WriteRow(StorageSave(st1, path, Content(e.file)), e.a, e.t, inst, DOMAIN inst)
    /\ response' = Resp("replace", OK)
    /\ UNCHANGED <<profile, biodata, call, log, sideVars>>

-----------------------------------------------------------------------------
(* services/scoring.py.  Ratios and scores are exact fractions [num, den];  *)
(* the weights are taken times 100, as the code multiplies them.             *)

PROFILE_COMPLETENESS_WEIGHT == 60       \* 0.6 * 100.0
DOCUMENT_WEIGHT == 40                   \* 0.4 * 100.0

PROFILE_COMPLETENESS_FIELDS ==
    {"user.full_name", "nik", "birth_date", "gender", "address", "contact_phone",
     "province_id", "district_id", "village_id", "education_level", "marital_status"}

\* Python values: None, a str, a bool, anything else.
None == [type |-> "NoneType"]
Str(chars) == [type |-> "str", value |-> chars]
Bool(b) == [type |-> "bool", truth |-> b]
Other == [type |-> "object"]
Number(num, den) == [type |-> "number", num |-> num, den |-> den]

\* An exception propagating out of a call, and a normal return.
Raised == [raised |-> TRUE]
Returned(v) == [raised |-> FALSE, value |-> v]

\* The object is a function from the attribute paths it has to their values.
_get_nested_attr(obj, path) == IF path \in DOMAIN obj THEN obj[path] ELSE None

_is_filled(value) ==
    CASE value.type = "NoneType" -> FALSE
      [] value.type = "str" -> strip(value.value) # <<>>
      [] value.type = "bool" -> value.truth
      [] OTHER -> TRUE

profile_completeness_ratio(applicant_profile) ==
    [num |-> Cardinality({f \in PROFILE_COMPLETENESS_FIELDS :
                             _is_filled(_get_nested_attr(applicant_profile, f))}),
     den |-> Cardinality(PROFILE_COMPLETENESS_FIELDS)]

\* The property read: an object without the property gives getattr's default,
\* a property that raises is marked by the type "raises".
RATE_ATTR == "document_approval_rate"

\* float(rate): ValueError for a str that is no number, TypeError for an
\* object that is none.
float(rate) ==
    IF rate.type = "number" THEN Returned([num |-> rate.num, den |-> rate.den])
    ELSE Raised

\* The same without the two except clauses: what is raised propagates.
document_ratio_Uncaught(applicant_profile) ==
    LET rate == _get_nested_attr(applicant_profile, RATE_ATTR)
        numeric == float(rate)
    IN IF rate.type = "raises" THEN Raised
       ELSE IF rate.type = "NoneType" THEN Returned([num |-> 0, den |-> 1])
       ELSE IF numeric.raised THEN Raised
       ELSE IF numeric.value.num <= 0 THEN Returned([num |-> 0, den |-> 1])
       ELSE IF numeric.value.num >= 100 * numeric.value.den
            THEN Returned([num |-> 1, den |-> 1])
       ELSE Returned([num |-> numeric.value.num, den |-> 100 * numeric.value.den])

document_ratio(applicant_profile) ==
    LET rate == _get_nested_attr(applicant_profile, RATE_ATTR)
        numeric == float(rate)
    IN IF rate.type = "raises" THEN Returned([num |-> 0, den |-> 1])
       ELSE IF rate.type = "NoneType" THEN Returned([num |-> 0, den |-> 1])
       ELSE IF numeric.raised THEN Returned([num |-> 0, den |-> 1])
       ELSE IF numeric.value.num <= 0 THEN Returned([num |-> 0, den |-> 1])
       ELSE IF numeric.value.num >= 100 * numeric.value.den
            THEN Returned([num |-> 1, den |-> 1])
       ELSE Returned([num |-> numeric.value.num, den |-> 100 * numeric.value.den])

\* round(n / d, 0) for n >= 0, d > 0: to the nearest integer, a tie to the
\* even one.
RoundHalfEven(n, d) ==
    LET q == n \div d
        r == n % d
    IN IF 2 * r < d THEN q
       ELSE IF 2 * r > d THEN q + 1
       ELSE IF q % 2 = 0 THEN q ELSE q + 1

\* The score in tenths: round(total, 1) * 10.
calculate_readiness_score(applicant_profile) ==
    LET pc == profile_completeness_ratio(applicant_profile)
        doc == document_ratio(applicant_profile)
    IN IF doc.raised THEN Raised
       ELSE LET num == pc.num * PROFILE_COMPLETENESS_WEIGHT * doc.value.den
                       + doc.value.num * DOCUMENT_WEIGHT * pc.den
                den == pc.den * doc.value.den
                total == IF num < 0 THEN [num |-> 0, den |-> 1]
                         ELSE IF num > 100 * den THEN [num |-> 100, den |-> 1]
                         ELSE [num |-> num, den |-> den]
            IN Returned(RoundHalfEven(10 * total.num, total.den))
-----------------------------------------------------------------------------
(* ApplicantProfile.document_approval_rate and has_complete_documents: the  *)
(* cached properties.  A read that misses is two steps: the queries, then   *)
(* cache.set and the return.                                                *)

\* x and y are the same number.
SameNumber(x, y) == x.num * y.den = y.num * x.den

\* (approved / total) * 100 of the applicant's rows; 0.0 without a row.
ApprovalRateOf(rows) ==
    LET total == Cardinality(DOMAIN rows)
        approved == Cardinality({t \in DOMAIN rows : rows[t].review_status = APPROVED})
    IN IF total = 0 THEN Number(0, 1) ELSE Number(approved * 100, total)

\* DocumentType.objects.filter(is_required=True): the seed makes ktp and
\* ijasah required.
RequiredTypes == DocTypes

\* Every required type has an APPROVED row.
CompleteOf(rows) ==
    Bool(\A t \in RequiredTypes : t \in DOMAIN rows /\ rows[t].review_status = APPROVED)

PropertyRead(fn, a, result, cached) ==
    [fn |-> fn, a |-> a, result |-> result, cached |-> cached]

\* document_approval_rate, lines 1010-1017: cache.get; on a miss the two
\* counts.  Without a row 0.0 is returned and nothing is cached.
RateGet(a) ==
    /\ IF RATE_KEY \in DOMAIN cache[a]
       THEN /\ call' = PropertyRead(RATE_ATTR, a, cache[a][RATE_KEY], TRUE)
            /\ UNCHANGED running
       ELSE IF DOMAIN docs[a] = {}
       THEN /\ call' = PropertyRead(RATE_ATTR, a, Number(0, 1), FALSE)
            /\ UNCHANGED running
       ELSE /\ Cardinality(running) < MaxRunning
            /\ running' = running \cup
                  {[kind |-> "read_rate", a |-> a, value |-> ApprovalRateOf(docs[a])]}
            /\ UNCHANGED call
    /\ UNCHANGED <<profile, biodata, docs, response, storage, queue, log, cache, sideVars>>

\* ... lines 1018-1020: cache.set(cache_key, rate, 300); return rate.
RateSet(e) ==
    /\ e \in running
    /\ e.kind = "read_rate"
    /\ running' = running \ {e}
    /\ cache' = cache_set(cache, e.a, RATE_KEY, e.value)
    /\ call' = PropertyRead(RATE_ATTR, e.a, e.value, FALSE)
    /\ UNCHANGED <<profile, biodata, docs, response, storage, queue, log, sideVars>>

COMPLETE_ATTR == "has_complete_documents"

\* has_complete_documents, lines 1026-1039: cache.get; on a miss the query
\* for each required type.
CompleteGet(a) ==
    /\ IF COMPLETE_KEY \in DOMAIN cache[a]
       THEN /\ call' = PropertyRead(COMPLETE_ATTR, a, cache[a][COMPLETE_KEY], TRUE)
            /\ UNCHANGED running
       ELSE /\ Cardinality(running) < MaxRunning
            /\ running' = running \cup
                  {[kind |-> "read_complete", a |-> a, value |-> CompleteOf(docs[a])]}
            /\ UNCHANGED call
    /\ UNCHANGED <<profile, biodata, docs, response, storage, queue, log, cache, sideVars>>

\* ... lines 1038 / 1041-1042: cache.set(cache_key, False or True, 300) and
\* the return.
CompleteSet(e) ==
    /\ e \in running
    /\ e.kind = "read_complete"
    /\ running' = running \ {e}
    /\ cache' = cache_set(cache, e.a, COMPLETE_KEY, e.value)
    /\ call' = PropertyRead(COMPLETE_ATTR, e.a, e.value, FALSE)
    /\ UNCHANGED <<profile, biodata, docs, response, storage, queue, log, sideVars>>

\* The timeout of 300 seconds passes for a key.
Expire(a, key) ==
    /\ key \in DOMAIN cache[a]
    /\ cache' = [cache EXCEPT ![a] =
                    IF DOMAIN cache[a] = {key} THEN <<>>
                    ELSE [k \in DOMAIN cache[a] \ {key} |-> cache[a][k]]]
    /\ UNCHANGED <<profile, biodata, docs, response, storage, queue, running, call, log,
                   sideVars>>

\* The object calculate_readiness_score is given for applicant a: the
\* completeness fields the model tracks, the others filled, and the rate
\* property.
ProfileObject(a) ==
    [f \in PROFILE_COMPLETENESS_FIELDS \cup {RATE_ATTR} |->
        IF f = RATE_ATTR THEN ApprovalRateOf(docs[a])
        ELSE IF f = "user.full_name"
             THEN (IF biodata[a]["full_name"] THEN Str(<<"x">>) ELSE Str(<<>>))
        ELSE IF f \in BiodataFields
             THEN (IF biodata[a][f] THEN Str(<<"x">>) ELSE None)
        ELSE Str(<<"x">>)]

\* The score the profile of a has when it is computed now, in tenths.
ReadinessScore(a) == calculate_readiness_score(ProfileObject(a)).value

\* recalculate_and_persist_score: the score is computed and saved when it
\* differs from the stored one.  No handler, signal receiver, model method or
\* task calls it, so it is part of no specification.
recalculate_and_persist_score(a) ==
    /\ score' = IF score[a] = ReadinessScore(a) THEN score
                ELSE [score EXCEPT ![a] = ReadinessScore(a)]
    /\ UNCHANGED <<profile, biodata, docs, response, storage, queue, running, call, log,
                   cache, broadcast, notifications>>

-----------------------------------------------------------------------------
(* Broadcast and Notification rows *)

\* get_recipients_by_config(broadcast.recipient_config), in the order of the
\* loop of send_broadcast.
RecipientList == <<"u1", "u2">>
Recipients == {RecipientList[i] : i \in DOMAIN RecipientList}

NewBroadcast == [sent_at |-> NULL, total_recipients |-> 0]

NoNotifications == [u \in Recipients |-> 0]

MAX_RETRIES_BROADCAST == 2
MaxDispatch == 2        \* calls of send_broadcast_task.delay for the one broadcast

BroadcastJob(k, n) == [kind |-> "broadcast", msg |-> k, retries |-> n]

\* send_broadcast_task, lines 265-271: load the Broadcast, return when
\* sent_at is set; else send_broadcast begins with the recipients.
BroadcastStart(j) ==
    /\ j \in queue
    /\ j.kind = "broadcast"
    /\ Cardinality(running) < MaxRunning
    /\ queue' = queue \ {j}
    /\ IF broadcast.sent_at # NULL
       THEN UNCHANGED running
       ELSE running' = running \cup {[kind |-> "broadcast", msg |-> j.msg,
                                      retries |-> j.retries, created |-> 0]}
    /\ UNCHANGED <<profile, biodata, docs, response, storage, call, log, cache, sideVars>>

\* create_notification for the next recipient of the loop:
\* Notification.objects.create(user=user, broadcast=broadcast, ...), a plain
\* insert.
create_notification(e) ==
    /\ e \in running
    /\ e.kind = "broadcast"
    /\ e.created < Len(RecipientList)
    /\ notifications' = [notifications EXCEPT ![RecipientList[e.created + 1]] = @ + 1]
    /\ running' = (running \ {e}) \cup {[e EXCEPT !.created = @ + 1]}
    /\ UNCHANGED <<profile, biodata, docs, response, storage, queue, call, log, cache,
                   score, broadcast>>

\* An exception inside send_broadcast (the database, or the broker when
\* send_notification_email_task.delay is called): the rows created so far
\* stay, autoretry queues the task again while retries < max_retries.
BroadcastFail(e) ==
    /\ e \in running
    /\ e.kind = "broadcast"
    /\ running' = running \ {e}
    /\ queue' = queue \cup (IF e.retries < MAX_RETRIES_BROADCAST
                            THEN {BroadcastJob(e.msg, e.retries + 1)} ELSE {})
    /\ UNCHANGED <<profile, biodata, docs, response, storage, call, log, cache, sideVars>>

\* send_broadcast, lines 91-96: after the loop total_recipients and sent_at
\* are saved.
BroadcastFinish(e) ==
    /\ e \in running
    /\ e.kind = "broadcast"
    /\ e.created = Len(RecipientList)
    /\ running' = running \ {e}
    /\ broadcast' = [sent_at |-> NOW, total_recipients |-> e.created]
    /\ UNCHANGED <<profile, biodata, docs, response, storage, queue, call, log, cache,
                   score, notifications>>

-----------------------------------------------------------------------------
(* optimize_document_image, lines 91-110: the compression loop, one action  *)
(* for each im.save(buf, "JPEG", ...).  The encoder decides whether the     *)
(* encoded size is within the target.                                       *)

MAX_SIDE == 2048
MIN_SIDE == 320
QUALITIES == <<85, 75, 65, 55, 45>>
SHRINK_QUALITY == 55

\* im.thumbnail((max_side, max_side)): the longer side becomes max_side, the
\* other keeps the ratio (rounded down here, at least 1).
thumbnail(size, max_side) ==
    IF size[1] <= max_side /\ size[2] <= max_side THEN size
    ELSE IF size[1] >= size[2]
    THEN <<max_side, IF (size[2] * max_side) \div size[1] = 0 THEN 1
                     ELSE (size[2] * max_side) \div size[1]>>
    ELSE <<IF (size[1] * max_side) \div size[2] = 0 THEN 1
           ELSE (size[1] * max_side) \div size[2], max_side>>

\* int(max_side * 0.9): a slower shrink.
NextSide_Slow(max_side) == (max_side * 9) \div 10

\* int(max_side * 0.75)
NextSide(max_side) == (max_side * 3) \div 4

\* im.resize((min(im.width, max_side), min(im.height, max_side)))
resize(size, max_side) ==
    <<IF size[1] < max_side THEN size[1] ELSE max_side,
      IF size[2] < max_side THEN size[2] ELSE max_side>>

Encoded(quality, max_side, fits) == [quality |-> quality, max_side |-> max_side, fits |-> fits]

\* The loop's state: where it is, the image size, max_side, the index of the
\* next quality of the ladder, and every encode so far.
Compression(phase, size, max_side, next, encodes) ==
    [fn |-> "optimize_document_image", phase |-> phase, size |-> size,
     max_side |-> max_side, next |-> next, encodes |-> encodes]

\* One pass of "for quality in (85, 75, 65, 55, 45)": encode, break when the
\* size is within the target; after the last quality the else clause is
\* entered with the buffer over the target.
LadderEncode(fits) ==
    /\ call.fn = "optimize_document_image"
    /\ call.phase = "ladder"
    /\ call' = Compression(IF fits THEN "done"
                           ELSE IF call.next < Len(QUALITIES) THEN "ladder" ELSE "shrink",
                           call.size, call.max_side, call.next + 1,
                           Append(call.encodes,
                                  Encoded(QUALITIES[call.next], call.max_side, fits)))
    /\ UNCHANGED <<profile, biodata, docs, response, storage, queue, running, log,
                   cache, sideVars>>

\* "while buf.tell() > target and max_side > 320": the test, and one pass
\* of the body when it holds.
ShrinkEncode(fits) ==
    /\ call.fn = "optimize_document_image"
    /\ call.phase = "shrink"
    /\ IF ~call.encodes[Len(call.encodes)].fits /\ call.max_side > MIN_SIDE
       THEN call' = Compression("shrink", resize(call.size, NextSide(call.max_side)),
                                NextSide(call.max_side), call.next,
                                Append(call.encodes,
                                       Encoded(SHRINK_QUALITY, NextSide(call.max_side), fits)))
       ELSE call' = [call EXCEPT !.phase = "done"]
    /\ UNCHANGED <<profile, biodata, docs, response, storage, queue, running, log,
                   cache, sideVars>>

-----------------------------------------------------------------------------
(* Specifications *)

\* Admin update bodies that carry a status and at most submitted_at.
StatusAttrs ==
    {x \in ProfileAttrs : /\ x.submitted_at \in {ABSENT, NOW}
                          /\ x.verified_at = ABSENT
                          /\ x.verified_by = ABSENT
                          /\ x.verification_notes = ABSENT}

\* The verification handlers, the admin update drawing its body from bodies.
ProfileHandlers(bodies) ==
    \/ \E a \in Applicants : SubmitForVerification(a)
    \/ \E a \in Applicants : SelfServiceSubmit(a)
    \/ \E a \in Applicants, r \in Reviewers, n \in NotesValues : Approve(a, r, n)
    \/ \E a \in Applicants, r \in Reviewers, n \in NotesValues : Reject(a, r, n)
    \/ \E a \in Applicants, r \in Reviewers, n \in NotesValues : ApproveView(a, r, n)
    \/ \E a \in Applicants, r \in Reviewers, n \in NotesValues : RejectView(a, r, n)
    \/ \E ids \in SUBSET Applicants, r \in Reviewers, n \in NotesValues :
          BulkApprove(ids, r, n)
    \/ \E ids \in SUBSET Applicants, r \in Reviewers, n \in NotesValues :
          BulkReject(ids, r, n)
    \/ \E a \in Applicants, r \in Reviewers, attrs \in bodies :
          AdminProfileUpdate(a, r, attrs)

\* Applicants registered with complete biodata; the verification handlers
\* interleaved with uploads and reviewer actions on their documents.
Init ==
    /\ profile = [a \in Applicants |-> NewProfile]
    /\ biodata = [a \in Applicants |-> [f \in BiodataFields |-> TRUE]]
    /\ docs = [a \in Applicants |-> <<>>]
    /\ response = Resp("none", OK)
    /\ storage = EmptyStorage(FALSE)
    /\ queue = {}
    /\ running = {}
    /\ log = {}
    /\ cache = EmptyCache
    /\ score = [a \in Applicants |-> ReadinessScore(a)]
    /\ broadcast = NewBroadcast
    /\ notifications = NoNotifications
    /\ call = NoCall

Next ==
    \/ ProfileHandlers(StatusAttrs)
    \/ \E a \in Applicants, t \in DocTypes : SelfServiceUpload(a, t, NoAttrs, ValidFile(t))
    \/ \E a \in Applicants, t \in DocTypes : AdminUpload(a, t, NoAttrs, ValidFile(t))
    \/ \E a \in Applicants, t \in DocTypes, r \in Reviewers, attrs \in StatusOnlyAttrs :
          ReviewDocument(a, t, r, attrs)
    \/ \E a \in Applicants, t \in DocTypes : DeleteDocument(a, t)

Spec == Init /\ [][Next]_vars

\* The verification handlers over every combination of filled biodata fields.
InitProfile ==
    /\ profile = [a \in Applicants |-> NewProfile]
    /\ biodata \in [Applicants -> [BiodataFields -> BOOLEAN]]
    /\ docs = [a \in Applicants |-> <<>>]
    /\ response = Resp("none", OK)
    /\ storage = EmptyStorage(FALSE)
    /\ queue = {}
    /\ running = {}
    /\ log = {}
    /\ cache = EmptyCache
    /\ score = [a \in Applicants |-> ReadinessScore(a)]
    /\ broadcast = NewBroadcast
    /\ notifications = NoNotifications
    /\ call = NoCall

NextProfile ==
    \/ ProfileHandlers(ProfileAttrs)
    \/ \E a \in Applicants, f \in BiodataFields, v \in BOOLEAN : EditBiodata(a, f, v)

SpecProfile == InitProfile /\ [][NextProfile]_vars

\* The document handlers alone, with every request body.
InitReview ==
    /\ profile = [a \in Applicants |-> NewProfile]
    /\ biodata = [a \in Applicants |-> [f \in BiodataFields |-> TRUE]]
    /\ docs = [a \in Applicants |-> <<>>]
    /\ response = Resp("none", OK)
    /\ storage = EmptyStorage(FALSE)
    /\ queue = {}
    /\ running = {}
    /\ log = {}
    /\ cache = EmptyCache
    /\ score = [a \in Applicants |-> ReadinessScore(a)]
    /\ broadcast = NewBroadcast
    /\ notifications = NoNotifications
    /\ call = NoCall

NextReview ==
    \/ \E a \in Applicants, t \in DocTypes, attrs \in DocAttrs :
          SelfServiceUpload(a, t, attrs, ValidFile(t))
    \/ \E a \in Applicants, t \in DocTypes, attrs \in DocAttrs :
          AdminUpload(a, t, attrs, ValidFile(t))
    \/ \E a \in Applicants, t \in DocTypes, r \in Reviewers, attrs \in DocAttrs :
          ReviewDocument(a, t, r, attrs)
    \/ \E a \in Applicants, t \in DocTypes : DeleteDocument(a, t)

SpecReview == InitReview /\ [][NextReview]_vars

\* The files uploaded in the pipeline specifications: two small JPEGs with
\* different content, a JPEG and a PNG over the image limit.
PipelineTypes == {"ktp"}
PipelineFiles ==
    {[name |-> JPG_NAME, size |-> SmallSize, bytes |-> "b1"],
     [name |-> JPG_NAME, size |-> SmallSize, bytes |-> "b2"],
     [name |-> JPG_NAME, size |-> BigSize, bytes |-> "b3"],
     [name |-> PNG_NAME, size |-> BigSize, bytes |-> "b3"]}

RetryCounts == 0..MAX_RETRIES_OCR

\* The worker: any waiting task may start, any started task may finish; the
\* provider call and the compression end as outcomes allows (TRUE: without an
\* exception).
Worker(outcomes) ==
    \/ \E a \in Applicants, t \in PipelineTypes, n \in RetryCounts : OcrStart(a, t, n)
    \/ \E e \in running, ok \in outcomes : OcrFinish(e, ok)
    \/ \E a \in Applicants, t \in PipelineTypes, n \in RetryCounts : OptimizeStart(a, t, n)
    \/ \E e \in running, ok \in outcomes : OptimizeFinish(e, ok)

Uploads(files) ==
    \/ \E a \in Applicants, t \in PipelineTypes, file \in files :
          SelfServiceUpload(a, t, NoAttrs, file)
    \/ \E a \in Applicants, t \in PipelineTypes, file \in files :
          AdminUpload(a, t, NoAttrs, file)

\* Uploads of KTP files and the worker, under either storage backend.
InitJobs ==
    /\ profile = [a \in Applicants |-> NewProfile]
    /\ biodata = [a \in Applicants |-> [f \in BiodataFields |-> TRUE]]
    /\ docs = [a \in Applicants |-> <<>>]
    /\ response = Resp("none", OK)
    /\ storage \in {EmptyStorage(b) : b \in BOOLEAN}
    /\ queue = {}
    /\ running = {}
    /\ log = {}
    /\ cache = EmptyCache
    /\ score = [a \in Applicants |-> ReadinessScore(a)]
    /\ broadcast = NewBroadcast
    /\ notifications = NoNotifications
    /\ call = NoCall

NextJobs ==
    \/ Uploads(PipelineFiles)
    \/ Worker(BOOLEAN)

SpecJobs == InitJobs /\ [][NextJobs]_vars

\* A JPEG over the image limit uploaded as KTP by the back office and reviewed
\* while the worker runs; the provider and the compression succeed.
ReviewedFiles == {f \in PipelineFiles : f.name = JPG_NAME /\ f.size = BigSize}

ReviewBodies == {x \in StatusOnlyAttrs : x.review_status = APPROVED}

NextPipeline ==
    \/ \E a \in Applicants, t \in PipelineTypes, file \in ReviewedFiles :
          AdminUpload(a, t, NoAttrs, file)
    \/ Worker({TRUE})
    \/ \E a \in Applicants, t \in PipelineTypes, r \in Reviewers, attrs \in ReviewBodies :
          ReviewLoad(a, t, r, attrs)
    \/ \E e \in running : ReviewSave(e)

SpecPipeline == InitJobs /\ [][NextPipeline]_vars

\* A valid KTP uploaded by the back office, read by the OCR task, and its file
\* replaced by the back office with the same bytes or with other bytes.
ReplaceFiles == {f \in PipelineFiles : f.size = SmallSize}

NextReplace ==
    \/ \E a \in Applicants, t \in PipelineTypes : AdminUpload(a, t, NoAttrs, ValidFile(t))
    \/ \E a \in Applicants, t \in PipelineTypes, n \in RetryCounts : OcrStart(a, t, n)
    \/ \E e \in running : OcrFinish(e, TRUE)
    \/ \E a \in Applicants, t \in PipelineTypes, r \in Reviewers, file \in ReplaceFiles :
          ReplaceLoad(a, t, r, file)
    \/ \E e \in running : ReplaceSave(e)

SpecReplace == InitJobs /\ [][NextReplace]_vars

\* A JPEG over the image limit uploaded as KTP by the back office, and the
\* worker with tasks that fail.
NextRetry ==
    \/ \E a \in Applicants, t \in PipelineTypes, file \in ReviewedFiles :
          AdminUpload(a, t, NoAttrs, file)
    \/ Worker(BOOLEAN)

SpecRetry == InitJobs /\ [][NextRetry]_vars

\* The validator applied to file names, sizes and type codes.
ValidateStems == {<<>>, <<"a">>, <<"a", ".", "p", "d", "f">>, <<"a", ".">>}
ValidateTails ==
    {<<>>, <<".">>, <<"p", "d", "f">>, <<".", "p", "d", "f">>, <<".", "P", "D", "F">>,
     <<".", "j", "p", "g">>, <<".", "J", "p", "G">>, <<".", "j", "p", "e", "g">>,
     <<".", "P", "N", "G">>, <<".", "g", "i", "f">>, <<".", "j", "p", "g", ".">>,
     <<".", "j", "p", "g", " ">>}
ValidateNames == {st \o tl : st \in ValidateStems, tl \in ValidateTails}
ValidateSizes ==
    {0, MAX_IMAGE_BYTES, MAX_IMAGE_BYTES + 1, MAX_PDF_BYTES, MAX_PDF_BYTES + 1}
ValidateCodes ==
    {<<>>, KTP_CODE, <<"K", "T", "P">>, <<" ", "k", "t", "p", " ">>, <<"k", " ", "t", "p">>,
     IJASAH_CODE, PASPOR_CODE, <<"k", "t">>}

InitValidate ==
    /\ profile = [a \in Applicants |-> NewProfile]
    /\ biodata = [a \in Applicants |-> [f \in BiodataFields |-> TRUE]]
    /\ docs = [a \in Applicants |-> <<>>]
    /\ response = Resp("none", OK)
    /\ storage = EmptyStorage(FALSE)
    /\ queue = {}
    /\ running = {}
    /\ log = {}
    /\ cache = EmptyCache
    /\ score = [a \in Applicants |-> ReadinessScore(a)]
    /\ broadcast = NewBroadcast
    /\ notifications = NoNotifications
    /\ call \in [fn : {"validate_document_file"},
                 file : [name : ValidateNames, size : ValidateSizes],
                 doc_type_code : ValidateCodes,
                 result : {"not_run"}]

RunValidate ==
    /\ call.result = "not_run"
    /\ call' = [call EXCEPT !.result = validate_document_file(call.file, call.doc_type_code)]
    /\ UNCHANGED <<profile, biodata, docs, response, storage, queue, running, log,
                   cache, sideVars>>

NextValidate == RunValidate

SpecValidate == InitValidate /\ [][NextValidate]_vars

\* Document writes by the applicant and the back office, with readers of the
\* two cached properties in between.
NextCache ==
    \/ \E a \in Applicants, t \in DocTypes : AdminUpload(a, t, NoAttrs, ValidFile(t))
    \/ \E a \in Applicants, t \in DocTypes, r \in Reviewers, attrs \in StatusOnlyAttrs :
          ReviewDocument(a, t, r, attrs)
    \/ \E a \in Applicants, t \in DocTypes : DeleteDocument(a, t)
    \/ \E a \in Applicants : RateGet(a)
    \/ \E e \in running : RateSet(e)
    \/ \E a \in Applicants : CompleteGet(a)
    \/ \E e \in running : CompleteSet(e)
    \/ \E a \in Applicants, key \in {RATE_KEY, COMPLETE_KEY} : Expire(a, key)

SpecCache == Init /\ [][NextCache]_vars

\* calculate_readiness_score as a function: the objects it is called with.
\* What an unfilled field and a filled field hold.
FieldValuePairs ==
    {<<None, Str(<<"x">>)>>, <<Str(<<>>), Bool(TRUE)>>,
     <<Str(<<" ">>), Other>>, <<Bool(FALSE), Str(<<"x", " ">>)>>}

\* What the document_approval_rate property gives: an exception, None, a str
\* that is no number, an object that is no number, numbers below, in and
\* above 0..100.
RateValues ==
    {[type |-> "raises"], None, Str(<<"x">>), Other,
     Number(0 - 10, 1), Number(0, 1), Number(100, 3), Number(50, 1), Number(200, 3),
     Number(100, 1), Number(150, 1)}

\* The object has no such property.
Missing == [type |-> "missing"]

\* An object whose fields in filled hold pair[2], the others pair[1], with
\* the rate property, or without it when rate is Missing.
ScoreObject(filled, pair, rate) ==
    [f \in PROFILE_COMPLETENESS_FIELDS \cup (IF rate = Missing THEN {} ELSE {RATE_ATTR}) |->
        IF f = RATE_ATTR THEN rate
        ELSE IF f \in filled THEN pair[2] ELSE pair[1]]

ScoreCall(filled, rate, obj) ==
    [fn |-> "calculate_readiness_score", filled |-> filled, rate |-> rate,
     applicant_profile |-> obj]

InitScore ==
    /\ profile = [a \in Applicants |-> NewProfile]
    /\ biodata = [a \in Applicants |-> [f \in BiodataFields |-> TRUE]]
    /\ docs = [a \in Applicants |-> <<>>]
    /\ response = Resp("none", OK)
    /\ storage = EmptyStorage(FALSE)
    /\ queue = {}
    /\ running = {}
    /\ log = {}
    /\ cache = EmptyCache
    /\ score = [a \in Applicants |-> ReadinessScore(a)]
    /\ broadcast = NewBroadcast
    /\ notifications = NoNotifications
    /\ \E filled \in SUBSET PROFILE_COMPLETENESS_FIELDS, pair \in FieldValuePairs,
          rate \in RateValues \cup {Missing} :
          call = ScoreCall(filled, rate, ScoreObject(filled, pair, rate))

RunScore ==
    /\ call.fn = "calculate_readiness_score"
    /\ "result" \notin DOMAIN call
    /\ call' = [f \in DOMAIN call \cup {"result"} |->
                   IF f = "result" THEN calculate_readiness_score(call.applicant_profile)
                   ELSE call[f]]
    /\ UNCHANGED <<profile, biodata, docs, response, storage, queue, running, log,
                   cache, sideVars>>

NextScore == RunScore

SpecScore == InitScore /\ [][NextScore]_vars

\* The compression loop of optimize_document_image as a process of its own:
\* the sizes of the decoded image.
ImageSides == {200, 1000, 2048, 4096}

InitCompress ==
    /\ profile = [a \in Applicants |-> NewProfile]
    /\ biodata = [a \in Applicants |-> [f \in BiodataFields |-> TRUE]]
    /\ docs = [a \in Applicants |-> <<>>]
    /\ response = Resp("none", OK)
    /\ storage = EmptyStorage(FALSE)
    /\ queue = {}
    /\ running = {}
    /\ log = {}
    /\ cache = EmptyCache
    /\ score = [a \in Applicants |-> ReadinessScore(a)]
    /\ broadcast = NewBroadcast
    /\ notifications = NoNotifications
    /\ \E w \in ImageSides, h \in ImageSides :
          call = Compression("ladder", thumbnail(<<w, h>>, MAX_SIDE), MAX_SIDE, 1, <<>>)

NextCompress == \E fits \in BOOLEAN : LadderEncode(fits) \/ ShrinkEncode(fits)

\* The loop runs inside one task execution: it takes its next step.
SpecCompress == InitCompress /\ [][NextCompress]_vars /\ WF_vars(NextCompress)

\* parse_ktp_text as a function: texts of one to three lines.
KtpLines ==
    {<<"Nama">>, <<"Nama", ":">>, <<"Nama", ":", " ", "BUDI">>, <<"BUDI">>, <<"AB">>,
     <<"PROVINSI">>, <<"NIK", " ", "3201010101010001">>, <<"12">>, <<" ">>}

KtpTexts ==
    KtpLines
    \cup {l1 \o <<"\n">> \o l2 : l1 \in KtpLines, l2 \in KtpLines}
    \cup {l1 \o <<"\n">> \o l2 \o <<"\n">> \o l3 :
             l1 \in KtpLines, l2 \in KtpLines, l3 \in KtpLines}

InitParse ==
    /\ profile = [a \in Applicants |-> NewProfile]
    /\ biodata = [a \in Applicants |-> [f \in BiodataFields |-> TRUE]]
    /\ docs = [a \in Applicants |-> <<>>]
    /\ response = Resp("none", OK)
    /\ storage = EmptyStorage(FALSE)
    /\ queue = {}
    /\ running = {}
    /\ log = {}
    /\ cache = EmptyCache
    /\ score = [a \in Applicants |-> ReadinessScore(a)]
    /\ broadcast = NewBroadcast
    /\ notifications = NoNotifications
    /\ call \in [fn : {"parse_ktp_text"}, text : KtpTexts]

RunParse ==
    /\ call.fn = "parse_ktp_text"
    /\ "result" \notin DOMAIN call
    /\ call' = [fn |-> call.fn, text |-> call.text, result |-> parse_ktp_text(call.text)]
    /\ UNCHANGED <<profile, biodata, docs, response, storage, queue, running, log,
                   cache, sideVars>>

NextParse == RunParse

SpecParse == InitParse /\ [][NextParse]_vars

\* One upload of a KTP file by the back office and nothing after it but the
\* worker, whose tasks may fail and whose compression may end over the target.
FirstUpload ==
    /\ \A a \in Applicants : DOMAIN docs[a] = {}
    /\ \E a \in Applicants, t \in PipelineTypes, file \in PipelineFiles :
          AdminUpload(a, t, NoAttrs, file)

DrainWorker ==
    \/ Worker(BOOLEAN)
    \/ \E e \in running : OptimizeFinishOver(e)

NextDrain == FirstUpload \/ DrainWorker

\* A worker that has a task to start or to finish goes on with one.
SpecDrain == InitJobs /\ [][NextDrain]_vars /\ WF_vars(DrainWorker)

\* One broadcast for which send_broadcast_task.delay(broadcast.id) has been
\* called MaxDispatch times (when the admin created it, when its scheduled_at
\* came), and the worker.
InitBroadcast ==
    /\ profile = [a \in Applicants |-> NewProfile]
    /\ biodata = [a \in Applicants |-> [f \in BiodataFields |-> TRUE]]
    /\ docs = [a \in Applicants |-> <<>>]
    /\ response = Resp("none", OK)
    /\ storage = EmptyStorage(FALSE)
    /\ queue = {BroadcastJob(k, 0) : k \in 1..MaxDispatch}
    /\ running = {}
    /\ log = {}
    /\ cache = EmptyCache
    /\ score = [a \in Applicants |-> ReadinessScore(a)]
    /\ broadcast = NewBroadcast
    /\ notifications = NoNotifications
    /\ call = NoCall

NextBroadcast ==
    \/ \E j \in queue : BroadcastStart(j)
    \/ \E e \in running : create_notification(e)
    \/ \E e \in running : BroadcastFail(e)
    \/ \E e \in running : BroadcastFinish(e)

SpecBroadcast == InitBroadcast /\ [][NextBroadcast]_vars

-----------------------------------------------------------------------------
(* Claims *)

FinalStatuses == {ACCEPTED, REJECTED}

\* C1: approve() on a SUBMITTED profile fails when some owned Document is not
\* APPROVED and succeeds (status ACCEPTED) when there are no Documents or all
\* are APPROVED.
C1_ApproveGatedByDocuments ==
    [][\A a \in Applicants, r \in Reviewers, n \in NotesValues :
          (Approve(a, r, n) \/ ApproveView(a, r, n))
          /\ profile[a].verification_status = SUBMITTED
          => IF \A t \in DOMAIN docs[a] : docs[a][t].review_status = APPROVED
             THEN response'.code = OK /\ profile'[a].verification_status = ACCEPTED
             ELSE response'.code # OK /\ profile'[a].verification_status = SUBMITTED
      ]_vars

\* C2: in every step in which a profile's status changes to ACCEPTED, the
\* applicant owns no Documents or all of them are APPROVED.
C2_AcceptedOnlyWithApprovedDocuments ==
    [][\A a \in Applicants :
          profile[a].verification_status # ACCEPTED
          /\ profile'[a].verification_status = ACCEPTED
          => \A t \in DOMAIN docs'[a] : docs'[a][t].review_status = APPROVED
      ]_vars

\* C3: a Document with reviewStatus REJECTED has non-empty reviewNotes.
C3_RejectedHasNotes ==
    \A a \in Applicants : \A t \in DOMAIN docs[a] :
        docs[a][t].review_status = REJECTED => docs[a][t].review_notes # ""

\* C4: every change of verificationStatus is DRAFT->SUBMITTED,
\* SUBMITTED->ACCEPTED or SUBMITTED->REJECTED.
C4_OnlyForwardEdges ==
    [][\A a \in Applicants :
          profile'[a].verification_status # profile[a].verification_status
          => <<profile[a].verification_status, profile'[a].verification_status>>
                \in {<<DRAFT, SUBMITTED>>, <<SUBMITTED, ACCEPTED>>, <<SUBMITTED, REJECTED>>}
      ]_vars

\* C5: a profile that is ACCEPTED or REJECTED has verifiedAt and verifiedBy
\* non-null.
C5_FinalStatusHasVerifier ==
    \A a \in Applicants :
        profile[a].verification_status \in FinalStatuses
        => profile[a].verified_at # NULL /\ profile[a].verified_by # NULL

C5_Witness ==
    \E a \in Applicants :
        /\ profile[a].verification_status \in FinalStatuses
        /\ response = Resp("admin_update", OK)

\* C6: a profile that is not DRAFT has a non-null submittedAt.
C6_SubmittedAtAfterDraft ==
    \A a \in Applicants :
        profile[a].verification_status # DRAFT => profile[a].submitted_at # NULL

C6_Witness ==
    \E a \in Applicants :
        /\ profile[a].verification_status = ACCEPTED
        /\ response = Resp("bulk_approve", OK)

C8_RefusedLeavesProfile ==
    [][\A a \in Applicants, r \in Reviewers, n \in NotesValues :
          \/ /\ Approve(a, r, n) \/ ApproveView(a, r, n)
             /\ profile[a].verification_status # SUBMITTED
          \/ /\ Reject(a, r, n) \/ RejectView(a, r, n)
             /\ (profile[a].verification_status # SUBMITTED \/ n = "")
          => response'.code = VALIDATION_ERROR /\ profile'[a] = profile[a]
      ]_vars

C8_Witness ==
    \E a \in Applicants :
        /\ response = Resp("reject", VALIDATION_ERROR)
        /\ profile[a].verification_status = SUBMITTED

\* C9: reviewedAt and reviewedBy are set together and only on the transition
\* away from PENDING: a PENDING -> APPROVED/REJECTED step leaves both non-null
\* and no other step takes either from null to non-null.
C9_ReviewerSetOnlyLeavingPending ==
    [][\A a \in Applicants : \A t \in DOMAIN docs[a] \cap DOMAIN docs'[a] :
          LET d == docs[a][t]
              e == docs'[a][t]
              leaves == d.review_status = PENDING
                        /\ e.review_status \in {APPROVED, REJECTED}
          IN /\ leaves => e.reviewed_at # NULL /\ e.reviewed_by # NULL
             /\ (d.reviewed_at = NULL /\ e.reviewed_at # NULL) => leaves
             /\ (d.reviewed_by = NULL /\ e.reviewed_by # NULL) => leaves
      ]_vars

\* C10: a Document created by an upload is PENDING with reviewedAt and
\* reviewedBy null, whatever the request carries, and only the reviewer action
\* changes the review fields afterwards.
C10_UploadCreatesPending ==
    [][\A a \in Applicants :
          /\ \A t \in DOMAIN docs'[a] \ DOMAIN docs[a] :
                /\ docs'[a][t].review_status = PENDING
                /\ docs'[a][t].reviewed_at = NULL
                /\ docs'[a][t].reviewed_by = NULL
          /\ \A t \in DOMAIN docs[a] \cap DOMAIN docs'[a] :
                docs'[a][t] # docs[a][t] => response'.op = "review"
      ]_vars

\* The part of a file name after its last dot is suf: the name is
\* pre . suf with no dot in suf.
ExtensionIs(name, suf) ==
    /\ \A i \in DOMAIN suf : suf[i] # "."
    /\ Len(name) > Len(suf)
    /\ name[Len(name) - Len(suf)] = "."
    /\ SubSeq(name, Len(name) - Len(suf) + 1, Len(name)) = suf

\* The extension of the name, compared without case, is one the spec allows.
ExtensionAllowed(name, spec) ==
    \E e \in spec.extensions :
        \E k \in 0..Len(name) :
            LET suf == SubSeq(name, Len(name) - k + 1, Len(name)) IN
            /\ ExtensionIs(name, suf)
            /\ lower(suf) = Tail(e)

\* C13: validate_document_file accepts iff the type code has no spec, or the
\* file's extension (after the last dot, case-insensitive) is allowed and its
\* size is within max_bytes; a wrong extension is reported as invalid format,
\* an oversize file with an allowed extension as too large; nothing else
\* changes.
C13_ValidateAcceptsIff ==
    call.fn = "validate_document_file" /\ call.result # "not_run"
    => LET spec == get_spec_for_code(call.doc_type_code)
           extOk == ExtensionAllowed(call.file.name, spec)
           sizeOk == call.file.size <= spec.max_bytes
       IN /\ call.result = VALID <=> (spec = NoSpec \/ (extOk /\ sizeOk))
          /\ (spec # NoSpec /\ ~extOk) => call.result = INVALID_FORMAT
          /\ (spec # NoSpec /\ extOk /\ ~sizeOk) => call.result = FILE_TOO_LARGE
          /\ docs = [a \in Applicants |-> <<>>] /\ storage = EmptyStorage(FALSE) /\ queue = {}

C13_Witness ==
    /\ call.fn = "validate_document_file"
    /\ call.result = VALID
    /\ call.doc_type_code = <<"K", "T", "P">>
    /\ call.file.name = <<"a", ".", "p", "d", "f", ".", "J", "p", "G">>
    /\ call.file.size = MAX_IMAGE_BYTES

\* C11: an upload for an (applicant, type) pair that already has a Document
\* succeeds, keeps the pair's single row, stores the uploaded content as the
\* row's file and releases the file the row had before.
C11_ReuploadReplaces ==
    [][\A a \in Applicants, t \in DocTypes :
          /\ HasDocument(a, t)
          /\ \/ SelfServiceUpload(a, t, NoAttrs, ValidFile(t))
             \/ AdminUpload(a, t, NoAttrs, ValidFile(t))
          => /\ response'.code = OK
             /\ DOMAIN docs'[a] = DOMAIN docs[a]
             /\ Exists(storage', docs'[a][t].file)
             /\ storage'.files[docs'[a][t].file] = Content(ValidFile(t))
             /\ docs'[a][t].file # docs[a][t].file => ~Exists(storage', docs[a][t].file)
      ]_vars

\* C12: no request removes a Document row.
C12_NoDocumentRemoved ==
    [][\A a \in Applicants : DOMAIN docs[a] \subseteq DOMAIN docs'[a]]_vars

\* C14: an upload handler given a file that validate_document_file rejects for
\* the Document's type creates no Document and stores no file.
C14_UploadsValidated ==
    [][\A a \in Applicants, t \in PipelineTypes, file \in PipelineFiles :
          /\ validate_document_file(file, CodeOf(t)) # VALID
          /\ \/ SelfServiceUpload(a, t, NoAttrs, file)
             \/ AdminUpload(a, t, NoAttrs, file)
          => UNCHANGED <<docs, storage>>
      ]_vars

\* C15: the request that replaces a Document's file leaves the OCR fields
\* empty (ocr_text, ocr_data empty, ocr_processed_at null) and an OCR task
\* queued for the Document.
C15_ReplaceResetsOcr ==
    [][\A e \in running :
          ReplaceSave(e)
          => /\ docs'[e.a][e.t].ocr_text = <<>>
             /\ docs'[e.a][e.t].ocr_data = <<>>
             /\ docs'[e.a][e.t].ocr_processed_at = NULL
             /\ Job("ocr", e.a, e.t, 0) \in queue'
      ]_vars

\* C16: a run of the OCR task that succeeds leaves ocr_text equal to the text
\* the provider returned, ocr_processed_at set, and ocr_data equal to
\* parse_ktp_text of that text for a ktp (the empty map for other types).
C16_OcrSuccessWritesResult ==
    [][\A e \in running :
          OcrFinish(e, TRUE) /\ HasDocument(e.a, e.t)
          => LET text == Vision[e.content.bytes]
                 d == docs'[e.a][e.t]
             IN /\ d.ocr_text = text
                /\ d.ocr_processed_at = NOW
                /\ IF CodeOf(e.t) = KTP_CODE
                   THEN d.ocr_data = parse_ktp_text(text)
                   ELSE d.ocr_data = <<>>
      ]_vars

ReviewGroup(d) == <<d.review_status, d.reviewed_by, d.reviewed_at, d.review_notes>>
OcrGroup(d) == <<d.ocr_text, d.ocr_data, d.ocr_processed_at>>

C18_NarrowWrites ==
    [][\A e \in running :
          /\ ReviewSave(e)
             => /\ OcrGroup(docs'[e.a][e.t]) = OcrGroup(docs[e.a][e.t])
                /\ docs'[e.a][e.t].file = docs[e.a][e.t].file
                /\ storage' = storage
          /\ OcrFinish(e, TRUE) /\ HasDocument(e.a, e.t)
             => /\ ReviewGroup(docs'[e.a][e.t]) = ReviewGroup(docs[e.a][e.t])
                /\ docs'[e.a][e.t].file = docs[e.a][e.t].file
          /\ OptimizeFinish(e, TRUE) /\ HasDocument(e.a, e.t)
             => /\ ReviewGroup(docs'[e.a][e.t]) = ReviewGroup(docs[e.a][e.t])
                /\ OcrGroup(docs'[e.a][e.t]) = OcrGroup(docs[e.a][e.t])
      ]_vars

\* No task is waiting or running and none was given up.
AllJobsCompleted == queue = {} /\ running = {} /\ log = {}

\* C19: once every task queued for a Document has completed and the bytes
\* stored under its file are those the optimization wrote, its OCR fields are
\* what the OCR task computes from these bytes.
C19_OcrOfStoredBytes ==
    \A a \in Applicants, t \in PipelineTypes :
        /\ AllJobsCompleted
        /\ HasDocument(a, t)
        /\ Exists(storage, docs[a][t].file)
        /\ storage.files[docs[a][t].file].bytes = "o3"
        => /\ docs[a][t].ocr_text = strip(Vision["o3"])
           /\ docs[a][t].ocr_data = IF strip(Vision["o3"]) = <<>> THEN <<>>
                                    ELSE parse_ktp_text(strip(Vision["o3"]))

\* C20: when the optimization of an image Document's file finishes, the stored
\* file is at most MAX_IMAGE_BYTES and an OCR task for the Document is queued.
C20_OptimizedThenOcr ==
    [][\A e \in running :
          OptimizeFinish(e, TRUE) /\ HasDocument(e.a, e.t)
          => /\ Exists(storage', docs'[e.a][e.t].file)
             /\ storage'.files[docs'[e.a][e.t].file].size <= MAX_IMAGE_BYTES
             /\ Job("ocr", e.a, e.t, 0) \in queue'
      ]_vars

\* C21: a read of documentApprovalRate or hasCompleteDocuments that the cache
\* answers returns what recomputing from the applicant's current documents
\* gives, whatever reads and document writes came before.
C21_CachedReadIsCurrent ==
    [][\A a \in Applicants :
          /\ (RateGet(a) /\ RATE_KEY \in DOMAIN cache[a])
                => SameNumber(call'.result, ApprovalRateOf(docs[a]))
          /\ (CompleteGet(a) /\ COMPLETE_KEY \in DOMAIN cache[a])
                => (call'.result = CompleteOf(docs[a]))]_vars

C23_StoredScoreCurrent ==
    \A a \in Applicants : score[a] = ReadinessScore(a)

\* C24: a save that creates the document with a file, or changes the file
\* path its row stores, leaves an OCR job for it in the queue; a save that
\* leaves the stored path as it was adds no OCR job.
C24_OcrOnNewPathOnly ==
    [][\A a \in Applicants, t \in DocTypes :
          /\ (t \in DOMAIN docs'[a] /\ (HasDocument(a, t) => docs'[a][t].file # docs[a][t].file))
                => Job("ocr", a, t, 0) \in queue'
          /\ (/\ HasDocument(a, t)
              /\ t \in DOMAIN docs'[a]
              /\ docs'[a][t] # docs[a][t]
              /\ docs'[a][t].file = docs[a][t].file)
                => ~\E n \in RetryCounts : Job("ocr", a, t, n) \in queue' \ queue]_vars

\* C25: an optimization job enters the queue only by a save that creates the
\* document or changes its stored file path, for an image type, when the
\* stored file is larger than 500 KiB.
C25_OptimizeOnlyOverBudget ==
    [][\A a \in Applicants, t \in DocTypes :
          Job("optimize", a, t, 0) \in queue' \ queue
          => /\ t \in DOMAIN docs'[a]
             /\ HasDocument(a, t) => docs'[a][t].file # docs[a][t].file
             /\ is_image_type(CodeOf(t))
             /\ Exists(storage', docs'[a][t].file)
             /\ storage'.files[docs'[a][t].file].size > MAX_IMAGE_BYTES]_vars

\* C28: the file path a document row stores always names a file that exists
\* in the storage: no save deletes the file the row points to and none
\* writes back a path whose file was released.
C28_RowFileExists ==
    \A a \in Applicants, t \in DocTypes :
        HasDocument(a, t) => Exists(storage, docs[a][t].file)

\* The encodes of the compression so far follow the loop of the claim: the
\* ladder 85, 75, 65, 55, 45 at 2048 px, then quality 55 at shrinking sides;
\* every encode but the last was over the target, every shrink pass but the
\* last was at a side above 320 px, there are at most 7 shrink passes, and
\* the loop is left with the target met or the side at most 320 px.
CompressionAsClaimed ==
    call.fn = "optimize_document_image" =>
    LET E == call.encodes IN
    /\ Len(E) <= Len(QUALITIES) + 7
    /\ \A i \in 1..Len(E) :
          /\ i < Len(E) => ~E[i].fits
          /\ i <= Len(QUALITIES) => E[i].quality = QUALITIES[i] /\ E[i].max_side = MAX_SIDE
          /\ i > Len(QUALITIES) => E[i].quality = SHRINK_QUALITY /\ E[i].max_side < MAX_SIDE
          /\ (i > Len(QUALITIES) /\ i < Len(E)) => E[i].max_side > MIN_SIDE
    /\ call.phase = "done"
          => /\ E # <<>>
             /\ \/ E[Len(E)].fits
                \/ Len(E) > Len(QUALITIES) /\ E[Len(E)].max_side <= MIN_SIDE

\* C26: the compression of the optimization job terminates, for every image
\* size and every outcome of the encoder, and until then it runs as claimed:
\* the ladder stops at the first quality that fits, the shrink loop ends as
\* soon as the size fits or the side is no longer above 320 px, after at
\* most 7 passes from 2048 px.
C26_CompressionTerminates ==
    /\ []CompressionAsClaimed
    /\ <>(call.fn = "optimize_document_image" /\ call.phase = "done")

\* The shrink loop has been left after 7 passes with the side at 273 px and
\* the size still over the target.
C26_Witness ==
    /\ call.fn = "optimize_document_image"
    /\ call.phase = "done"
    /\ Len(call.encodes) = Len(QUALITIES) + 7
    /\ call.max_side = 273
    /\ ~call.encodes[Len(call.encodes)].fits

\* C27: when no line of the text has the Nama label followed by a value but
\* a line is the label alone (with or without a colon or period), and the
\* next non-blank line is fit to be a name (no label line, not a number,
\* longer than 2 characters), parse_ktp_text gives that next line as the name.
C27_NameAfterBareLabel ==
    (call.fn = "parse_ktp_text" /\ "result" \in DOMAIN call)
    => LET lines == strip_lines(splitlines(call.text))
           valued == {i \in DOMAIN lines : /\ IsLabel(lines[i], NAMA_LABEL)
                                           /\ after_label(lines[i]) # <<>>}
           bare == {i \in DOMAIN lines : /\ IsLabel(lines[i], NAMA_LABEL)
                                         /\ after_label(lines[i]) = <<>>}
       IN (valued = {} /\ bare # {})
          => LET i == CHOOSE k \in bare : \A j \in bare : k <= j IN
             (/\ i + 1 <= Len(lines)
              /\ ~IsLabel(lines[i + 1], NAMA_LABEL)
              /\ ~isdigit(lines[i + 1])
              /\ len(lines[i + 1]) > 2)
             => call.result.name = lines[i + 1]

C30_BroadcastOnce ==
    /\ [](\A u \in Recipients : notifications[u] <= 1)
    /\ [][broadcast.sent_at # NULL => UNCHANGED <<broadcast, notifications>>]_vars

====
